---- MODULE Spec2Model ----
(***************************************************************************)
(* ci-matrix-planner: the directive lexer (parseDirectives), the list      *)
(* normalizer (normalizeList, lowerUnique) and the plan resolver           *)
(* (computePlan) of src/index.js.                                          *)
(*                                                                         *)
(* A JavaScript string is modelled as a sequence of one-character strings, *)
(* so that trimming, splitting, case folding and matching are computed     *)
(* character by character.  An optional value (a property that may be      *)
(* undefined) is a sequence of length 0 (absent) or 1 (present).           *)
(***************************************************************************)
EXTENDS Integers, Sequences, FiniteSets, TLC

VARIABLES
  pc,          \* position of the run: "call", "done" (resolver); "text", "lexed" (lexer);
               \* "raw", "normalized" (normalizer); "threw": computePlan raised
  opts,        \* the argument of computePlan: config, message, labels, inputs
  directives,  \* the Directive Map returned by parseDirectives
  frame,       \* the locals of computePlan when it returns
  plan,        \* the value returned by computePlan
  rawList,     \* the raw list text handed to the List Normalizer
  tokenList,   \* the Token List it returns
  harvester,   \* the harvester of the run, "none" where computePlan is called directly
  env,         \* what surrounds the run: the override input, the token, the event
               \* payload, and what each lookup gives
  hpc,         \* the statement the harvester is at
  locals,      \* the locals of the harvester: message, source, prBodyDefaults,
               \* headCommitMsg, prNumber
  lookups,     \* the reads and requests issued so far, in order
  outstanding  \* the requests sent and not yet answered

harvestVars == <<harvester, env, hpc, locals, lookups, outstanding>>

vars == <<pc, opts, directives, frame, plan, rawList, tokenList, harvester, env, hpc,
          locals, lookups, outstanding>>

(***************************************************************************)
(* Bounds                                                                  *)
(***************************************************************************)
MaxLines == 2      \* lines of a message handed to computePlan
MaxTextLen == 5    \* characters of a text handed to parseDirectives alone
MaxRawLen == 5     \* characters of a raw list text handed to the List Normalizer alone

(***************************************************************************)
(* Characters and strings                                                  *)
(***************************************************************************)
UpperChars == <<"A","B","C","D","E","F","G","H","I","J","K","L","M",
                "N","O","P","Q","R","S","T","U","V","W","X","Y","Z">>
LowerChars == <<"a","b","c","d","e","f","g","h","i","j","k","l","m",
                "n","o","p","q","r","s","t","u","v","w","x","y","z">>

\* the class [A-Za-z_] of the directive pattern
IsKeyChar(c) == \E i \in 1..26 : c = UpperChars[i] \/ c = LowerChars[i] \/ c = "_"

\* the class \s of the directive pattern (the white space of the modelled alphabet)
IsSpace(c) == c \in {" ", "\t", "\n", "\r"}

\* the class . of the directive pattern: anything but a line terminator
IsDotChar(c) == c \notin {"\n", "\r"}

toLowerCaseChar(c) ==
  IF \E i \in 1..26 : c = UpperChars[i]
  THEN LowerChars[CHOOSE i \in 1..26 : c = UpperChars[i]]
  ELSE c

\* String.prototype.toLowerCase
toLowerCase(s) == [i \in 1..Len(s) |-> toLowerCaseChar(s[i])]

RECURSIVE trimStart(_)
trimStart(s) == IF s # <<>> /\ IsSpace(Head(s)) THEN trimStart(Tail(s)) ELSE s

RECURSIVE trimEnd(_)
trimEnd(s) ==
  IF s # <<>> /\ IsSpace(s[Len(s)]) THEN trimEnd(SubSeq(s, 1, Len(s) - 1)) ELSE s

\* String.prototype.trim
trim(s) == trimEnd(trimStart(s))

\* Array.prototype.includes / String.prototype.includes for one element
includes(list, x) == \E i \in 1..Len(list) : list[i] = x

\* Array.prototype.join
RECURSIVE join(_, _)
join(list, sep) ==
  IF list = <<>> THEN <<>>
  ELSE IF Len(list) = 1 THEN list[1]
  ELSE list[1] \o sep \o join(Tail(list), sep)

(***************************************************************************)
(* Directive Lexer                                                         *)
(***************************************************************************)
\* String.prototype.split(/\r?\n/): cur is the line being read
RECURSIVE splitLinesFrom(_, _)
splitLinesFrom(s, cur) ==
  IF s = <<>> THEN <<cur>>
  ELSE IF Head(s) = "\n" THEN <<cur>> \o splitLinesFrom(Tail(s), <<>>)
  ELSE IF Head(s) = "\r" /\ Len(s) >= 2 /\ s[2] = "\n"
       THEN <<cur>> \o splitLinesFrom(Tail(Tail(s)), <<>>)
  ELSE splitLinesFrom(Tail(s), Append(cur, Head(s)))

splitLines(s) == splitLinesFrom(s, <<>>)

\* the longest prefix of s made of key characters: the group ([A-Za-z_]+)
RECURSIVE keyPrefix(_)
keyPrefix(s) ==
  IF s # <<>> /\ IsKeyChar(Head(s)) THEN <<Head(s)>> \o keyPrefix(Tail(s)) ELSE <<>>

NoMatch == [ok |-> FALSE, key |-> <<>>, val |-> <<>>]

\* the pattern /^\s*([A-Za-z_]+)\s*=\s*(.+?)\s*$/ anchored at offset `from` of ln;
\* key is group 1, val is group 2 trimmed
matchAt(ln, from) ==
  LET s1   == trimStart(SubSeq(ln, from, Len(ln)))
      key  == keyPrefix(s1)
      s2   == trimStart(SubSeq(s1, Len(key) + 1, Len(s1)))
      rest == IF s2 = <<>> THEN <<>> ELSE Tail(s2)
      core == trim(rest)
  IN IF key = <<>> \/ s2 = <<>> \/ Head(s2) # "=" THEN NoMatch
     ELSE IF core # <<>>
          THEN IF \A i \in 1..Len(core) : IsDotChar(core[i])
               THEN [ok |-> TRUE, key |-> key, val |-> core]
               ELSE NoMatch
          ELSE IF \E i \in 1..Len(rest) : IsDotChar(rest[i])
               THEN [ok |-> TRUE, key |-> key, val |-> <<>>]
               ELSE NoMatch

\* the same pattern without its ^ anchor: the key may begin anywhere in the line
matchAnywhere(ln) ==
  IF \E p \in 1..Len(ln) : matchAt(ln, p).ok
  THEN matchAt(ln, CHOOSE p \in 1..Len(ln) :
                     matchAt(ln, p).ok /\ \A q \in 1..(p - 1) : ~matchAt(ln, q).ok)
  ELSE NoMatch

\* the pattern with a value that may not be blank: /^\s*([A-Za-z_]+)\s*=\s*(\S.*?)\s*$/
matchNonBlank(ln) ==
  IF matchAt(ln, 1).ok /\ matchAt(ln, 1).val # <<>> THEN matchAt(ln, 1) ELSE NoMatch

\* ln.match(/^\s*([A-Za-z_]+)\s*=\s*(.+?)\s*$/)
matchLine(ln) == matchAt(ln, 1)

EmptyMap == [k \in {} |-> <<>>]

\* out[key] = val
setKey(out, key, val) ==
  [k \in (DOMAIN out) \cup {key} |-> IF k = key THEN val ELSE out[k]]

\* the same loop with the pattern sought anywhere on the line
RECURSIVE parseLinesAnywhere(_, _)
parseLinesAnywhere(lines, out) ==
  IF lines = <<>> THEN out
  ELSE LET m == matchAnywhere(Head(lines))
       IN parseLinesAnywhere(Tail(lines),
            IF m.ok THEN setKey(out, toLowerCase(m.key), trim(m.val)) ELSE out)

\* the loop over the lines, later lines overwriting earlier ones
RECURSIVE parseLines(_, _)
parseLines(lines, out) ==
  IF lines = <<>> THEN out
  ELSE LET m == matchLine(Head(lines))
       IN parseLines(Tail(lines),
                     IF m.ok THEN setKey(out, toLowerCase(m.key), trim(m.val)) ELSE out)

parseDirectives(msg) ==
  IF msg = <<>> THEN EmptyMap ELSE parseLines(splitLines(msg), EmptyMap)

\* directives.<key>: undefined is read as the empty string (both are falsy and
\* every use in computePlan is a truth test or follows one)
getKey(d, key) == IF key \in DOMAIN d THEN d[key] ELSE <<>>

(***************************************************************************)
(* List Normalizer                                                         *)
(***************************************************************************)
\* the separator class [, \n] of normalizeList
IsListSep(c) == c \in {",", " ", "\n"}

\* String.prototype.split(/[, \n]+/) followed by the trim of each piece
RECURSIVE splitListFrom(_, _)
splitListFrom(s, cur) ==
  IF s = <<>> THEN <<trim(cur)>>
  ELSE IF IsListSep(Head(s)) THEN <<trim(cur)>> \o splitListFrom(Tail(s), <<>>)
  ELSE splitListFrom(Tail(s), Append(cur, Head(s)))

isNonEmpty(s) == s # <<>>

normalizeList(raw) ==
  IF raw = <<>> THEN <<>> ELSE SelectSeq(splitListFrom(raw, <<>>), isNonEmpty)

\* the separator class [, \t\r\n] of normalizeList in part_000
IsListSep000(c) == c \in {",", " ", "\t", "\r", "\n"}

\* the separator class [,\s] of normalizeList in part_001 and part_003
IsListSep001(c) == c = "," \/ IsSpace(c)

\* String.prototype.split(/[, \t\r\n]+/) followed by the trim of each piece
RECURSIVE splitListFrom000(_, _)
splitListFrom000(s, cur) ==
  IF s = <<>> THEN <<trim(cur)>>
  ELSE IF IsListSep000(Head(s)) THEN <<trim(cur)>> \o splitListFrom000(Tail(s), <<>>)
  ELSE splitListFrom000(Tail(s), Append(cur, Head(s)))

\* normalizeList of part_000
normalizeList000(raw) ==
  IF raw = <<>> THEN <<>> ELSE SelectSeq(splitListFrom000(raw, <<>>), isNonEmpty)

\* String.prototype.split(/[,\s]+/) followed by the trim of each piece
RECURSIVE splitListFrom001(_, _)
splitListFrom001(s, cur) ==
  IF s = <<>> THEN <<trim(cur)>>
  ELSE IF IsListSep001(Head(s)) THEN <<trim(cur)>> \o splitListFrom001(Tail(s), <<>>)
  ELSE splitListFrom001(Tail(s), Append(cur, Head(s)))

\* normalizeList of part_001 and part_003
normalizeList001(raw) ==
  IF raw = <<>> THEN <<>> ELSE SelectSeq(splitListFrom001(raw, <<>>), isNonEmpty)

RECURSIVE lowerUniqueFrom(_, _)
lowerUniqueFrom(list, out) ==
  IF list = <<>> THEN out
  ELSE LET x == toLowerCase(Head(list))
       IN lowerUniqueFrom(Tail(list), IF includes(out, x) THEN out ELSE Append(out, x))

\* the lower-casing without the `seen` set
lowerNoUnique(list) == [i \in 1..Len(list) |-> toLowerCase(list[i])]

lowerUnique(list) == lowerUniqueFrom(list, <<>>)

(***************************************************************************)
(* Plan Resolver                                                           *)
(***************************************************************************)
BuiltinJobs ==
  << <<"f", "e", "e", "l", "p", "p">> (* feelpp *), <<"t", "e", "s", "t", "s", "u", "i", "t", "e">> (* testsuite *), <<"t", "o", "o", "l", "b", "o", "x", "e", "s">> (* toolboxes *), <<"m", "o", "r">> (* mor *), <<"p", "y", "t", "h", "o", "n">> (* python *) >>

BuiltinTargets ==
  << <<"u", "b", "u", "n", "t", "u", ":", "2", "4", ".", "0", "4">> (* ubuntu:24.04 *), <<"u", "b", "u", "n", "t", "u", ":", "2", "2", ".", "0", "4">> (* ubuntu:22.04 *), <<"d", "e", "b", "i", "a", "n", ":", "1", "3">> (* debian:13 *), <<"d", "e", "b", "i", "a", "n", ":", "1", "2">> (* debian:12 *),
     <<"f", "e", "d", "o", "r", "a", ":", "4", "2">> (* fedora:42 *) >>

BuiltinMode == <<"c", "o", "m", "p", "o", "n", "e", "n", "t", "s">> (* components *)

BuiltinFullJob == <<"f", "e", "e", "l", "p", "p", "-", "s", "p", "a", "c", "k">> (* feelpp-spack *)

ModeFull == <<"f", "u", "l", "l">> (* full *)

LabelFull == <<"c", "i", "-", "m", "o", "d", "e", "-", "f", "u", "l", "l">> (* ci-mode-full *)

LabelComponents == <<"c", "i", "-", "m", "o", "d", "e", "-", "c", "o", "m", "p", "o", "n", "e", "n", "t", "s">> (* ci-mode-components *)

KeyMode == <<"m", "o", "d", "e">> (* mode *)
KeyOnly == <<"o", "n", "l", "y">> (* only *)
KeySkip == <<"s", "k", "i", "p">> (* skip *)
KeyTargets == <<"t", "a", "r", "g", "e", "t", "s">> (* targets *)
KeyInclude == <<"i", "n", "c", "l", "u", "d", "e">> (* include *)
KeyExclude == <<"e", "x", "c", "l", "u", "d", "e">> (* exclude *)

\* cfg.defaults?.<field>
cfgDefault(cfg, field) ==
  IF cfg.defaults = <<>> THEN <<>> ELSE cfg.defaults[1][field]

\* truth test of an optional string: present and not empty
truthyStr(o) == o # <<>> /\ o[1] # <<>>

\* the same chain with the directive tried before the explicit override
resolveModeDirectiveFirst(o, d) ==
  toLowerCase(
    IF getKey(d, KeyMode) # <<>> THEN getKey(d, KeyMode)
    ELSE IF o.inputs.modeInput # <<>> THEN o.inputs.modeInput
    ELSE IF truthyStr(cfgDefault(o.config, "mode")) THEN cfgDefault(o.config, "mode")[1]
    ELSE BuiltinMode)

\* the chain modeInput || directives.mode || cfg.defaults?.mode || "components",
\* lower-cased
resolveMode(o, d) ==
  toLowerCase(
    IF o.inputs.modeInput # <<>> THEN o.inputs.modeInput
    ELSE IF getKey(d, KeyMode) # <<>> THEN getKey(d, KeyMode)
    ELSE IF truthyStr(cfgDefault(o.config, "mode")) THEN cfgDefault(o.config, "mode")[1]
    ELSE BuiltinMode)

\* the label tests with ci-mode-full honoured only over the built-in mode
applyLabelsOverDefaultOnly(mode, labels) ==
  LET m1 == IF includes(labels, LabelFull) /\ mode = BuiltinMode THEN ModeFull ELSE mode
  IN IF includes(labels, LabelComponents) THEN BuiltinMode ELSE m1

\* the two label tests in the other order: ci-mode-full is tested last
applyLabelsFullLast(mode, labels) ==
  LET m1 == IF includes(labels, LabelComponents) THEN BuiltinMode ELSE mode
  IN IF includes(labels, LabelFull) THEN ModeFull ELSE m1

\* the two label tests, applied in this order
applyLabels(mode, labels) ==
  LET m1 == IF includes(labels, LabelFull) THEN ModeFull ELSE mode
  IN IF includes(labels, LabelComponents) THEN BuiltinMode ELSE m1

\* cfg.jobs || [five names]
jobsCfgOf(cfg) == IF cfg.jobs # <<>> THEN cfg.jobs[1] ELSE BuiltinJobs

\* cfg.defaults?.jobs || jobsCfg
defaultJobsOf(cfg) ==
  IF cfgDefault(cfg, "jobs") # <<>> THEN cfgDefault(cfg, "jobs")[1] ELSE jobsCfgOf(cfg)

\* cfg.targets || [five identifiers]
targetsCfgOf(cfg) == IF cfg.targets # <<>> THEN cfg.targets[1] ELSE BuiltinTargets

\* cfg.defaults?.targets || [] : the fall-back to the target universe forgotten
defaultTargetsOfNoUniverse(cfg) ==
  IF cfgDefault(cfg, "targets") # <<>> THEN cfgDefault(cfg, "targets")[1] ELSE <<>>

\* cfg.defaults?.targets || targetsCfg
defaultTargetsOf(cfg) ==
  IF cfgDefault(cfg, "targets") # <<>> THEN cfgDefault(cfg, "targets")[1]
  ELSE targetsCfgOf(cfg)

\* (cfg.fullBuild && cfg.fullBuild.job) || "feelpp-spack"
fullJobOf(cfg) ==
  IF cfg.fullBuild # <<>> /\ truthyStr(cfg.fullBuild[1].job)
  THEN cfg.fullBuild[1].job[1] ELSE BuiltinFullJob

\* the same choice with the full-build collapse left out
initialJobsNoCollapse(mode, cfg) == defaultJobsOf(cfg)

\* the same choice with every mode but `components` collapsed to the full job
initialJobsCollapseCustom(mode, cfg) ==
  IF mode # BuiltinMode THEN <<fullJobOf(cfg)>> ELSE defaultJobsOf(cfg)

\* the list enabledJobs starts from
initialJobs(mode, cfg) ==
  IF mode = ModeFull THEN <<fullJobOf(cfg)>> ELSE defaultJobsOf(cfg)

\* the same tokens with the key `jobs` read as another name of `only`:
\* directives.only || directives.jobs || ...
jobTokensJobsAlias(d, key, cfg, field) ==
  lowerUnique(normalizeList(
    IF getKey(d, key) # <<>> THEN getKey(d, key)
    ELSE IF key = KeyOnly /\ getKey(d, <<"j", "o", "b", "s">>) # <<>>
    THEN getKey(d, <<"j", "o", "b", "s">>)
    ELSE IF cfgDefault(cfg, field) # <<>> THEN join(cfgDefault(cfg, field)[1], <<" ">>)
    ELSE <<>>))

\* lowerUnique(normalizeList(directives.<key> || (cfg.defaults?.<field> || []).join(" ")))
jobTokens(d, key, cfg, field) ==
  lowerUnique(normalizeList(
    IF getKey(d, key) # <<>> THEN getKey(d, key)
    ELSE IF cfgDefault(cfg, field) # <<>> THEN join(cfgDefault(cfg, field)[1], <<" ">>)
    ELSE <<>>))

\* the only list taken as the enabled list instead of as a filter
filterJobsOnlyReplaces(jobs, onlyJobs, skipJobs) ==
  LET notSkip(j) == ~includes(skipJobs, toLowerCase(j))
      afterOnly  == IF onlyJobs # <<>> THEN onlyJobs ELSE jobs
  IN IF skipJobs # <<>> THEN SelectSeq(afterOnly, notSkip) ELSE afterOnly

\* the same filters with the skip filter left out
filterJobsOnlyFilter(jobs, onlyJobs, skipJobs) ==
  LET inOnly(j) == includes(onlyJobs, toLowerCase(j))
  IN IF onlyJobs # <<>> THEN SelectSeq(jobs, inOnly) ELSE jobs

\* the only filter, then the skip filter
filterJobs(jobs, onlyJobs, skipJobs) ==
  LET inOnly(j)  == includes(onlyJobs, toLowerCase(j))
      notSkip(j) == ~includes(skipJobs, toLowerCase(j))
      afterOnly  == IF onlyJobs # <<>> THEN SelectSeq(jobs, inOnly) ELSE jobs
  IN IF skipJobs # <<>> THEN SelectSeq(afterOnly, notSkip) ELSE afterOnly

\* the include loop: push each token the working list does not hold yet
RECURSIVE pushMissing(_, _)
pushMissing(working, tokens) ==
  IF tokens = <<>> THEN working
  ELSE pushMissing(IF includes(working, Head(tokens)) THEN working
                   ELSE Append(working, Head(tokens)),
                   Tail(tokens))

\* the same resolution with the final reset to defaultTargets left out
resolveTargetsNoReset(d, defaultTargets) ==
  LET only  == getKey(d, KeyOnly)
      w1    == IF only # <<>> /\ includes(only, ":") THEN normalizeList(only)
               ELSE defaultTargets
      w2    == IF getKey(d, KeyTargets) # <<>> THEN normalizeList(getKey(d, KeyTargets))
               ELSE w1
      w3    == IF getKey(d, KeyInclude) # <<>>
               THEN pushMissing(w2, normalizeList(getKey(d, KeyInclude))) ELSE w2
      ex    == normalizeList(getKey(d, KeyExclude))
      notEx(t) == ~includes(ex, t)
  IN IF getKey(d, KeyExclude) # <<>> THEN SelectSeq(w3, notEx) ELSE w3

\* the resolution of the target list
resolveTargets(d, defaultTargets) ==
  LET only  == getKey(d, KeyOnly)
      w1    == IF only # <<>> /\ includes(only, ":") THEN normalizeList(only)
               ELSE defaultTargets
      w2    == IF getKey(d, KeyTargets) # <<>> THEN normalizeList(getKey(d, KeyTargets))
               ELSE w1
      w3    == IF getKey(d, KeyInclude) # <<>>
               THEN pushMissing(w2, normalizeList(getKey(d, KeyInclude))) ELSE w2
      ex    == normalizeList(getKey(d, KeyExclude))
      notEx(t) == ~includes(ex, t)
      w4    == IF getKey(d, KeyExclude) # <<>> THEN SelectSeq(w3, notEx) ELSE w3
  IN IF w4 = <<>> THEN defaultTargets ELSE w4

\* the characters JSON.stringify writes for one character of a string
jsonChar(c) ==
  CASE c = "\"" -> <<"\\", "\"">>
    [] c = "\\" -> <<"\\", "\\">>
    [] c = "\n" -> <<"\\", "n">>
    [] c = "\r" -> <<"\\", "r">>
    [] c = "\t" -> <<"\\", "t">>
    [] OTHER    -> <<c>>

RECURSIVE jsonString(_)
jsonString(s) == IF s = <<>> THEN <<>> ELSE jsonChar(Head(s)) \o jsonString(Tail(s))

\* JSON.stringify of an array of strings
jsonStringify(list) ==
  <<"[">> \o join([i \in 1..Len(list) |-> <<"\"">> \o jsonString(list[i]) \o <<"\"">>],
                  <<",">>) \o <<"]">>

\* an optional value that is present with the wrong type, the number 7: the
\* second element marks it, the first is the placeholder the code passes on
NotAList == << <<>>, <<>> >>

isNotAList(x) == Len(x) = 2

\* computePlan raises a TypeError: [...defaultJobs] or [...defaultTargets]
\* spreads a number, or .join is called on a number
throws(o) ==
  LET cfg  == o.config
      d    == parseDirectives(trim(o.message))
      mode == applyLabels(resolveMode(o, d), lowerUnique(o.labels))
  IN \/ /\ mode # ModeFull
        /\ \/ isNotAList(cfgDefault(cfg, "jobs"))
           \/ cfgDefault(cfg, "jobs") = <<>> /\ isNotAList(cfg.jobs)
     \/ getKey(d, KeyOnly) = <<>> /\ isNotAList(cfgDefault(cfg, "onlyJobs"))
     \/ getKey(d, KeySkip) = <<>> /\ isNotAList(cfgDefault(cfg, "skipJobs"))
     \/ isNotAList(cfgDefault(cfg, "targets"))
     \/ cfgDefault(cfg, "targets") = <<>> /\ isNotAList(cfg.targets)

\* workingTargets with the copy of line 100 left out (workingTargets =
\* defaultTargets): the include loop then pushes onto the array of the
\* configuration, unless an only or targets directive replaced the working list
\* or defaultTargets is the built-in literal
workingIsConfigArrayNoSpread(o, d) ==
  /\ ~(getKey(d, KeyOnly) # <<>> /\ includes(getKey(d, KeyOnly), ":"))
  /\ getKey(d, KeyTargets) = <<>>
  /\ (cfgDefault(o.config, "targets") # <<>> \/ o.config.targets # <<>>)

\* whether workingTargets is an array of the configuration when the include
\* loop pushes onto it: never, [...defaultTargets] and normalizeList both
\* give a new array
workingIsConfigArray(o, d) == FALSE

\* the configuration after the call: the include loop is the one statement of
\* computePlan that changes an array in place
configAfter(o) ==
  LET cfg    == o.config
      d      == parseDirectives(trim(o.message))
      pushed == pushMissing(defaultTargetsOf(cfg), normalizeList(getKey(d, KeyInclude)))
  IN IF workingIsConfigArray(o, d) /\ getKey(d, KeyInclude) # <<>>
     THEN IF cfgDefault(cfg, "targets") # <<>>
          THEN [cfg EXCEPT !.defaults = <<[cfg.defaults[1] EXCEPT !.targets = <<pushed>>]>>]
          ELSE [cfg EXCEPT !.targets = <<pushed>>]
     ELSE cfg

\* the locals of computePlan at its return statement
computeFrame(o) ==
  LET cfg      == o.config
      message  == trim(o.message)
      labels   == lowerUnique(o.labels)
      d        == parseDirectives(message)
      mode     == applyLabels(resolveMode(o, d), labels)
      jobs0    == initialJobs(mode, cfg)
      onlyJobs == jobTokens(d, KeyOnly, cfg, "onlyJobs")
      skipJobs == jobTokens(d, KeySkip, cfg, "skipJobs")
  IN [ message        |-> message,
       labels         |-> labels,
       directives     |-> d,
       mode           |-> mode,
       jobsCfg        |-> jobsCfgOf(cfg),
       defaultJobs    |-> defaultJobsOf(cfg),
       defaultTargets |-> defaultTargetsOf(cfg),
       initialJobs    |-> jobs0,
       onlyJobs       |-> onlyJobs,
       skipJobs       |-> skipJobs,
       enabledJobs    |-> filterJobs(jobs0, onlyJobs, skipJobs),
       workingTargets |-> resolveTargets(d, defaultTargetsOf(cfg)) ]

\* the object computePlan returns
planOf(f) ==
  [ mode        |-> f.mode,
    enabledJobs |-> f.enabledJobs,
    onlyJobs    |-> join(f.onlyJobs, <<" ">>),
    skipJobs    |-> join(f.skipJobs, <<" ">>),
    targetsJson |-> jsonStringify(f.workingTargets),
    targetsList |-> join(f.workingTargets, <<" ">>) ]

computePlan(o) == planOf(computeFrame(o))

(***************************************************************************)
(* Message Harvester                                                       *)
(***************************************************************************)
RecognizedKeys == <<KeyOnly, KeySkip, KeyTargets, KeyInclude, KeyExclude, KeyMode>>

\* the class \w of the word boundary \b
IsWordChar(c) == IsKeyChar(c) \/ c \in {"0", "1", "2", "3", "4", "5", "6", "7", "8", "9"}

\* s begins with the characters of k
startsWith(s, k) == Len(s) >= Len(k) /\ SubSeq(s, 1, Len(k)) = k

\* (only|skip|targets|include|exclude|mode)\s*= matched at the head of s
keywordEquals(s) ==
  \E i \in 1..Len(RecognizedKeys) :
    /\ startsWith(s, RecognizedKeys[i])
    /\ LET after == trimStart(SubSeq(s, Len(RecognizedKeys[i]) + 1, Len(s)))
       IN after # <<>> /\ Head(after) = "="

\* /\b(only|skip|targets|include|exclude|mode)\s*=/.test(txt): the detector
\* of the entrypoint of index.js
hasDirectiveLoose(txt) ==
  \E p \in 1..Len(txt) :
    /\ p = 1 \/ ~IsWordChar(txt[p - 1])
    /\ keywordEquals(SubSeq(txt, p, Len(txt)))

\* /^\s*(only|skip|targets|include|exclude|mode)\s*=/m.test(txt): the strict
\* detector of part_001 and part_003
hasDirective(txt) ==
  \E p \in 1..Len(txt) :
    /\ p = 1 \/ txt[p - 1] \in {"\n", "\r"}
    /\ keywordEquals(trimStart(SubSeq(txt, p, Len(txt))))

isDirectiveLine(l) == keywordEquals(trimStart(l))

\* extractDirectiveLines of part_001: the trimmed lines that begin with a keyword
extractDirectiveLines(txt) ==
  IF txt = <<>> THEN <<>>
  ELSE SelectSeq([i \in 1..Len(splitLines(txt)) |-> trim(splitLines(txt)[i])],
                 isDirectiveLine)

\* obj[key] = val on an object kept as the list of its entries, in the order
\* Object.entries gives them
setEntry(entries, key, val) ==
  IF \E i \in 1..Len(entries) : entries[i][1] = key
  THEN [i \in 1..Len(entries) |->
          IF entries[i][1] = key THEN <<key, val>> ELSE entries[i]]
  ELSE Append(entries, <<key, val>>)

RECURSIVE parseEntriesFrom(_, _)
parseEntriesFrom(lines, out) ==
  IF lines = <<>> THEN out
  ELSE LET m == matchLine(Head(lines))
       IN parseEntriesFrom(Tail(lines),
            IF m.ok THEN setEntry(out, toLowerCase(m.key), trim(m.val)) ELSE out)

\* Object.entries(parseDirectives(msg))
parseEntries(msg) ==
  IF msg = <<>> THEN <<>> ELSE parseEntriesFrom(splitLines(msg), <<>>)

\* { ...into, ...from }
RECURSIVE spread(_, _)
spread(into, from) ==
  IF from = <<>> THEN into
  ELSE spread(setEntry(into, Head(from)[1], Head(from)[2]), Tail(from))

\* the effectiveMessage of part_001: the entries of the merged object, one
\* key=value per line
mergedMessage(prBodyDefaults, headCommitMsg) ==
  LET merged == spread(parseEntries(prBodyDefaults), parseEntries(headCommitMsg))
  IN trim(join([i \in 1..Len(merged) |-> merged[i][1] \o <<"=">> \o merged[i][2]],
               <<"\n">>))

\* `${message ? message + "\n\n---\n" : ""}${more}`
appendMessage(msg, more) ==
  IF msg # <<>> THEN msg \o <<"\n", "\n", "-", "-", "-", "\n">> \o more ELSE more

\* the error is rethrown instead of being swallowed
rethrown(next) == "failed"

\* a catch block swallows the error of a lookup: the run goes on at `next`
caught(next) == next

(***************************************************************************)
(* Inputs                                                                  *)
(***************************************************************************)
NoDefaults ==
  [mode |-> <<>>, jobs |-> <<>>, targets |-> <<>>, onlyJobs |-> <<>>, skipJobs |-> <<>>]

\* the empty configuration {}
EmptyConfig == [jobs |-> <<>>, targets |-> <<>>, defaults |-> <<>>, fullBuild |-> <<>>]

Configs ==
  { EmptyConfig,
    \* {defaults: {mode: "full"}, fullBuild: {job: "Spack"}}
    [EmptyConfig EXCEPT !.defaults = <<[NoDefaults EXCEPT !.mode = << <<"f", "u", "l", "l">> (* full *) >>]>>,
                        !.fullBuild = <<[job |-> << <<"S", "p", "a", "c", "k">> (* Spack *) >>]>>],
    \* {jobs: ["feelpp","python"], defaults: {jobs: ["Python","docs","feelpp"]}}
    [EmptyConfig EXCEPT !.jobs = << << <<"f", "e", "e", "l", "p", "p">> (* feelpp *), <<"p", "y", "t", "h", "o", "n">> (* python *) >> >>,
                        !.defaults = <<[NoDefaults EXCEPT
                             !.jobs = << << <<"P", "y", "t", "h", "o", "n">> (* Python *), <<"d", "o", "c", "s">> (* docs *), <<"f", "e", "e", "l", "p", "p">> (* feelpp *) >> >>]>>],
    \* {targets: ["fedora:42","debian:13"], defaults: {targets: ["debian:13"], mode: "Nightly"}}
    [EmptyConfig EXCEPT !.targets = << << <<"f", "e", "d", "o", "r", "a", ":", "4", "2">> (* fedora:42 *), <<"d", "e", "b", "i", "a", "n", ":", "1", "3">> (* debian:13 *) >> >>,
                        !.defaults = <<[NoDefaults EXCEPT
                             !.targets = << << <<"d", "e", "b", "i", "a", "n", ":", "1", "3">> (* debian:13 *) >> >>,
                             !.mode = << <<"N", "i", "g", "h", "t", "l", "y">> (* Nightly *) >>]>>],
    \* {defaults: {onlyJobs: ["feelpp","mor"], skipJobs: ["MOR"]}, fullBuild: {}}
    [EmptyConfig EXCEPT !.defaults = <<[NoDefaults EXCEPT
                             !.onlyJobs = << << <<"f", "e", "e", "l", "p", "p">> (* feelpp *), <<"m", "o", "r">> (* mor *) >> >>,
                             !.skipJobs = << << <<"M", "O", "R">> (* MOR *) >> >>]>>,
                        !.fullBuild = <<[job |-> <<>>]>>],
    \* {targets: []}
    [EmptyConfig EXCEPT !.targets = << <<>> >>] }

\* configurations with an optional field of the wrong type
MalformedConfigs ==
  { \* {defaults: {onlyJobs: 7}}
    [EmptyConfig EXCEPT !.defaults = <<[NoDefaults EXCEPT !.onlyJobs = NotAList]>>],
    \* {defaults: {skipJobs: 7, mode: "full"}}
    [EmptyConfig EXCEPT !.defaults = <<[NoDefaults EXCEPT !.skipJobs = NotAList,
                                                         !.mode = << <<"f", "u", "l", "l">> (* full *) >>]>>],
    \* {defaults: {jobs: 7}}
    [EmptyConfig EXCEPT !.defaults = <<[NoDefaults EXCEPT !.jobs = NotAList]>>],
    \* {jobs: 7, targets: ["fedora:42"]}
    [EmptyConfig EXCEPT !.jobs = NotAList, !.targets = << << <<"f", "e", "d", "o", "r", "a", ":", "4", "2">> (* fedora:42 *) >> >>],
    \* {targets: 7, defaults: {targets: ["debian:13"]}}
    [EmptyConfig EXCEPT !.targets = NotAList,
                        !.defaults = <<[NoDefaults EXCEPT
                             !.targets = << << <<"d", "e", "b", "i", "a", "n", ":", "1", "3">> (* debian:13 *) >> >>]>>] }

\* the lines messages are made of
Lines ==
  << <<"m", "o", "d", "e", "=", "f", "u", "l", "l">> (* mode=full *),
     <<"M", "O", "D", "E", " ", "=", " ", "C", "o", "m", "p", "o", "n", "e", "n", "t", "s">> (* MODE = Components *),
     <<"o", "n", "l", "y", "=", "f", "e", "e", "l", "p", "p", " ", "t", "e", "s", "t", "s", "u", "i", "t", "e">> (* only=feelpp testsuite *),
     <<"o", "n", "l", "y", "=", "u", "b", "u", "n", "t", "u", ":", "2", "4", ".", "0", "4", ",", "d", "e", "b", "i", "a", "n", ":", "1", "2">> (* only=ubuntu:24.04,debian:12 *),
     <<"s", "k", "i", "p", "=", "t", "e", "s", "t", "s", "u", "i", "t", "e">> (* skip=testsuite *),
     <<"t", "a", "r", "g", "e", "t", "s", "=", "f", "e", "d", "o", "r", "a", ":", "4", "2">> (* targets=fedora:42 *),
     <<"i", "n", "c", "l", "u", "d", "e", "=", "d", "e", "b", "i", "a", "n", ":", "1", "3">> (* include=debian:13 *),
     <<"e", "x", "c", "l", "u", "d", "e", "=", "f", "e", "d", "o", "r", "a", ":", "4", "2", " ", "d", "e", "b", "i", "a", "n", ":", "1", "3">> (* exclude=fedora:42 debian:13 *),
     <<"t", "a", "r", "g", "e", "t", "s", "=", " ">> (* targets=  *),
     <<"-", " ", "s", "k", "i", "p", "=", "f", "e", "e", "l", "p", "p">> (* - skip=feelpp *),
     <<"t", "a", "r", "g", "e", "t", "s", "=", "f", "e", "d", "o", "r", "a", ":", "4", "2", ",", "F", "e", "d", "o", "r", "a", ":", "4", "2">> (* targets=fedora:42,Fedora:42 *) >>

\* the messages of n lines, joined by line feeds
RECURSIVE MessagesOf(_)
MessagesOf(n) ==
  IF n = 0 THEN {<<>>}
  ELSE IF n = 1 THEN {Lines[i] : i \in 1..Len(Lines)}
  ELSE {m \o <<"\n">> \o Lines[i] : m \in MessagesOf(n - 1), i \in 1..Len(Lines)}

Messages == UNION {MessagesOf(n) : n \in 0..MaxLines}

\* the lines of the messages of the repeated calls: a custom mode, keys that
\* are not recognized, and directives on jobs and targets
CallLines ==
  << <<"m", "o", "d", "e", "=", "N", "i", "g", "h", "t", "l", "y">> (* mode=Nightly *),
     <<"j", "o", "b", "s", "=", "m", "o", "r">> (* jobs=mor *),
     <<"P", "r", "i", "o", "r", "i", "t", "y", " ", "=", " ", "h", "i", "g", "h">> (* Priority = high *),
     <<"s", "k", "i", "p", "=", "f", "e", "e", "l", "p", "p">> (* skip=feelpp *),
     <<"i", "n", "c", "l", "u", "d", "e", "=", "d", "e", "b", "i", "a", "n", ":", "1", "2">> (* include=debian:12 *),
     <<"t", "a", "r", "g", "e", "t", "s", "=", " ">> (* targets=  *) >>

RECURSIVE CallMessagesOf(_)
CallMessagesOf(n) ==
  IF n = 0 THEN {<<>>}
  ELSE IF n = 1 THEN {CallLines[i] : i \in 1..Len(CallLines)}
  ELSE {m \o <<"\n">> \o CallLines[i] : m \in CallMessagesOf(n - 1),
                                        i \in 1..Len(CallLines)}

CallMessages == UNION {CallMessagesOf(n) : n \in 0..MaxLines}

\* label sets with neither sentinel and with both, in the two orders
CallLabelSets ==
  { <<>>,
    << <<"c", "i", "-", "m", "o", "d", "e", "-", "c", "o", "m", "p", "o", "n", "e", "n", "t", "s">> (* ci-mode-components *), <<"c", "i", "-", "m", "o", "d", "e", "-", "f", "u", "l", "l">> (* ci-mode-full *) >>,
    << <<"c", "i", "-", "m", "o", "d", "e", "-", "f", "u", "l", "l">> (* ci-mode-full *), <<"c", "i", "-", "m", "o", "d", "e", "-", "c", "o", "m", "p", "o", "n", "e", "n", "t", "s">> (* ci-mode-components *) >>,
    << <<"C", "i", "-", "M", "o", "d", "e", "-", "F", "u", "l", "l">> (* Ci-Mode-Full *), <<"d", "o", "c", "s">> (* docs *), <<"C", "I", "-", "M", "O", "D", "E", "-", "C", "o", "m", "p", "o", "n", "e", "n", "t", "s">> (* CI-MODE-Components *) >> }

LabelSets ==
  { <<>>,
    << <<"c", "i", "-", "m", "o", "d", "e", "-", "f", "u", "l", "l">> (* ci-mode-full *) >>,
    << <<"C", "I", "-", "M", "o", "d", "e", "-", "F", "u", "l", "l">> (* CI-Mode-Full *), <<"d", "o", "c", "s">> (* docs *) >>,
    << <<"c", "i", "-", "m", "o", "d", "e", "-", "c", "o", "m", "p", "o", "n", "e", "n", "t", "s">> (* ci-mode-components *) >>,
    << <<"c", "i", "-", "m", "o", "d", "e", "-", "c", "o", "m", "p", "o", "n", "e", "n", "t", "s">> (* ci-mode-components *), <<"c", "i", "-", "m", "o", "d", "e", "-", "f", "u", "l", "l">> (* ci-mode-full *) >> }

ModeInputs == { <<>>, <<"f", "u", "l", "l">> (* full *), <<"W", "e", "e", "k", "l", "y">> (* Weekly *) }

\* the characters of the texts handed to the lexer alone
LexChars == {"a", "B", "=", " ", "-", "\n"}

RECURSIVE TextsOf(_)
TextsOf(n) ==
  IF n = 0 THEN {<<>>} ELSE {Append(t, c) : t \in TextsOf(n - 1), c \in LexChars}

\* the texts of at most n characters
RECURSIVE TextsUpTo(_)
TextsUpTo(n) == IF n = 0 THEN TextsOf(0) ELSE TextsUpTo(n - 1) \cup TextsOf(n)

Texts == TextsUpTo(MaxTextLen)

\* the characters of the raw list texts handed to the normalizer alone
NormChars == {"a", "A", "b", ",", " ", "\t", "\n"}

RECURSIVE RawTextsOf(_)
RawTextsOf(n) ==
  IF n = 0 THEN {<<>>} ELSE {Append(t, c) : t \in RawTextsOf(n - 1), c \in NormChars}

\* the raw list texts of at most n characters
RECURSIVE RawTextsUpTo(_)
RawTextsUpTo(n) ==
  IF n = 0 THEN RawTextsOf(0) ELSE RawTextsUpTo(n - 1) \cup RawTextsOf(n)

RawTexts == RawTextsUpTo(MaxRawLen)

NoOpts == [config |-> EmptyConfig, message |-> <<>>, labels |-> <<>>,
           inputs |-> [modeInput |-> <<>>]]

\* the harvesters: the entrypoint of index.js, harvestMessageLatestOnly of
\* part_003, harvestLatestWithPRDefaults of part_001
Harvesters == {"entrypoint", "latestOnly", "withPRDefaults"}

\* the values of the input message-override
Overrides ==
  { <<>>, <<"m", "o", "d", "e", "=", "f", "u", "l", "l">> (* mode=full *), <<"M", "O", "D", "E", "=", "f", "u", "l", "l">> (* MODE=full *), <<"p", "l", "e", "a", "s", "e", " ", "r", "u", "n", " ", "w", "i", "t", "h", " ", "m", "o", "d", "e", "=", "f", "u", "l", "l">> (* please run with mode=full *) }

\* the file at GITHUB_EVENT_PATH: absent, not JSON, a pull_request event
\* (number 7) or a push event
EventPayloads ==
  { [kind |-> "absent", title |-> <<>>, body |-> <<>>, headCommit |-> <<>>],
    [kind |-> "malformed", title |-> <<>>, body |-> <<>>, headCommit |-> <<>>],
    [kind |-> "pull_request", title |-> <<"F", "i", "x", " ", "t", "y", "p", "o">> (* Fix typo *), body |-> <<>>,
     headCommit |-> <<>>],
    [kind |-> "pull_request", title |-> <<"F", "i", "x", " ", "t", "y", "p", "o">> (* Fix typo *), body |-> <<"s", "k", "i", "p", "=", "p", "y", "t", "h", "o", "n">> (* skip=python *),
     headCommit |-> <<>>],
    [kind |-> "pull_request", title |-> <<"F", "i", "x", " ", "t", "y", "p", "o">> (* Fix typo *), body |-> <<"S", "k", "i", "p", "=", "p", "y", "t", "h", "o", "n">> (* Skip=python *),
     headCommit |-> <<>>],
    [kind |-> "push", title |-> <<>>, body |-> <<>>, headCommit |-> <<"w", "i", "p">> (* wip *)],
    [kind |-> "push", title |-> <<>>, body |-> <<>>,
     headCommit |-> <<"t", "a", "r", "g", "e", "t", "s", "=", "f", "e", "d", "o", "r", "a", ":", "4", "2">> (* targets=fedora:42 *)] }

\* what GET /repos/{owner}/{repo}/pulls/{n}/commits gives: an error, or the
\* messages of the commits, oldest first
PrCommitResults ==
  { [ok |-> FALSE, messages |-> <<>>],
    [ok |-> TRUE, messages |-> <<>>],
    [ok |-> TRUE, messages |-> << <<"w", "i", "p">> (* wip *), <<"o", "n", "l", "y", "=", "f", "e", "e", "l", "p", "p">> (* only=feelpp *) >>],
    [ok |-> TRUE, messages |-> << <<"o", "n", "l", "y", "=", "m", "o", "r">> (* only=mor *), <<"w", "i", "p">> (* wip *) >>],
    [ok |-> TRUE, messages |-> << <<"s", "k", "i", "p", "=", "m", "o", "r">> (* skip=mor *) >>] }

\* what GET /repos/{owner}/{repo}/commits/{sha} gives: an error, or the message
PushCommitResults ==
  { [ok |-> FALSE, message |-> <<>>],
    [ok |-> TRUE, message |-> <<"w", "i", "p">> (* wip *)],
    [ok |-> TRUE, message |-> <<"e", "x", "c", "l", "u", "d", "e", "=", "d", "e", "b", "i", "a", "n", ":", "1", "2">> (* exclude=debian:12 *)] }

\* what `git log -1 --pretty=%B` gives: an error (no checkout), or its output
GitLogResults ==
  { [ok |-> FALSE, message |-> <<>>],
    [ok |-> TRUE, message |-> <<"w", "i", "p">> (* wip *) \o <<"\n">>],
    [ok |-> TRUE, message |-> <<"i", "n", "c", "l", "u", "d", "e", "=", "d", "e", "b", "i", "a", "n", ":", "1", "3">> (* include=debian:13 *) \o <<"\n">>] }

\* the configurations of the harvesting runs
HarvestConfigs ==
  { EmptyConfig,
    \* {defaults: {mode: "full"}, fullBuild: {job: "Spack"}}
    [EmptyConfig EXCEPT !.defaults = <<[NoDefaults EXCEPT !.mode = << <<"f", "u", "l", "l">> (* full *) >>]>>,
                        !.fullBuild = <<[job |-> << <<"S", "p", "a", "c", "k">> (* Spack *) >>]>>] }

\* the surroundings of no run
NoEnv ==
  [override |-> <<>>, token |-> FALSE,
   event |-> [kind |-> "absent", title |-> <<>>, body |-> <<>>, headCommit |-> <<>>],
   prCommits |-> [ok |-> FALSE, messages |-> <<>>],
   pushCommit |-> [ok |-> FALSE, message |-> <<>>],
   gitLog |-> [ok |-> FALSE, message |-> <<>>]]

\* the locals of a harvester before its first statement
NoLocals ==
  [message |-> <<>>, source |-> "none", prBodyDefaults |-> <<>>,
   headCommitMsg |-> <<>>, prNumber |-> FALSE]

\* no harvester runs
NoHarvest ==
  /\ harvester = "none"
  /\ env = NoEnv
  /\ hpc = "idle"
  /\ locals = NoLocals
  /\ lookups = <<>>
  /\ outstanding = {}

NoFrame == [k \in {} |-> <<>>]

NoPlan == [k \in {} |-> <<>>]

(***************************************************************************)
(* The resolver: one call of computePlan on inputs drawn from the sets     *)
(***************************************************************************)
Init ==
  /\ pc = "call"
  /\ opts \in [config : Configs, message : Messages, labels : LabelSets,
               inputs : [modeInput : ModeInputs]]
  /\ directives = EmptyMap
  /\ frame = NoFrame
  /\ plan = NoPlan
  /\ rawList = <<>>
  /\ tokenList = <<>>
  /\ NoHarvest

ComputePlan ==
  /\ pc = "call"
  /\ ~throws(opts)
  /\ frame' = computeFrame(opts)
  /\ directives' = frame'.directives
  /\ plan' = planOf(frame')
  /\ opts' = [opts EXCEPT !.config = configAfter(opts)]
  /\ pc' = "done"
  /\ UNCHANGED <<rawList, tokenList, harvestVars>>

Next == ComputePlan

Spec == Init /\ [][Next]_vars

(***************************************************************************)
(* The resolver called twice with the same opts object                     *)
(***************************************************************************)
CallsInit ==
  /\ pc = "call"
  /\ opts \in [config : Configs, message : CallMessages, labels : CallLabelSets,
               inputs : [modeInput : ModeInputs]]
  /\ directives = EmptyMap
  /\ frame = NoFrame
  /\ plan = NoPlan
  /\ rawList = <<>>
  /\ tokenList = <<>>
  /\ NoHarvest

\* the second call, with the object the first call was given
ComputePlanAgain ==
  /\ pc = "done"
  /\ ~throws(opts)
  /\ frame' = computeFrame(opts)
  /\ directives' = frame'.directives
  /\ plan' = planOf(frame')
  /\ opts' = [opts EXCEPT !.config = configAfter(opts)]
  /\ pc' = "again"
  /\ UNCHANGED <<rawList, tokenList, harvestVars>>

CallsNext == ComputePlan \/ ComputePlanAgain

CallsSpec == CallsInit /\ [][CallsNext]_vars

(***************************************************************************)
(* The resolver on configurations with an optional field of the wrong type *)
(***************************************************************************)
MalformedInit ==
  /\ pc = "call"
  /\ opts \in [config : MalformedConfigs, message : MessagesOf(0) \cup MessagesOf(1),
               labels : LabelSets, inputs : [modeInput : ModeInputs]]
  /\ directives = EmptyMap
  /\ frame = NoFrame
  /\ plan = NoPlan
  /\ rawList = <<>>
  /\ tokenList = <<>>
  /\ NoHarvest

\* the TypeError leaves computePlan without a plan
ComputePlanThrows ==
  /\ pc = "call"
  /\ throws(opts)
  /\ pc' = "threw"
  /\ UNCHANGED <<opts, directives, frame, plan, rawList, tokenList, harvestVars>>

MalformedNext == ComputePlan \/ ComputePlanThrows

MalformedSpec == MalformedInit /\ [][MalformedNext]_vars

(***************************************************************************)
(* The lexer alone: one call of parseDirectives on a text                  *)
(***************************************************************************)
LexInit ==
  /\ pc = "text"
  /\ opts \in [config : {EmptyConfig}, message : Texts, labels : {<<>>},
               inputs : [modeInput : {<<>>}]]
  /\ directives = EmptyMap
  /\ frame = NoFrame
  /\ plan = NoPlan
  /\ rawList = <<>>
  /\ tokenList = <<>>
  /\ NoHarvest

ParseDirectives ==
  /\ pc = "text"
  /\ directives' = parseDirectives(opts.message)
  /\ pc' = "lexed"
  /\ UNCHANGED <<opts, frame, plan, rawList, tokenList, harvestVars>>

LexNext == ParseDirectives

LexSpec == LexInit /\ [][LexNext]_vars

(***************************************************************************)
(* The normalizer alone: lowerUnique(normalizeList(raw)) on a raw text     *)
(***************************************************************************)
NormInit ==
  /\ pc = "raw"
  /\ opts = NoOpts
  /\ directives = EmptyMap
  /\ frame = NoFrame
  /\ plan = NoPlan
  /\ rawList \in RawTexts
  /\ tokenList = <<>>
  /\ NoHarvest

NormalizeList ==
  /\ pc = "raw"
  /\ tokenList' = lowerUnique(normalizeList(rawList))
  /\ pc' = "normalized"
  /\ UNCHANGED <<opts, directives, frame, plan, rawList, harvestVars>>

NormNext == NormalizeList

NormSpec == NormInit /\ [][NormNext]_vars

(***************************************************************************)
(* The harvesting runs: a harvester, then computePlan on what it returns   *)
(***************************************************************************)
HarvestInit ==
  /\ pc = "harvest"
  /\ opts \in [config : HarvestConfigs, message : {<<>>}, labels : {<<>>},
               inputs : [modeInput : {<<>>}]]
  /\ directives = EmptyMap
  /\ frame = NoFrame
  /\ plan = NoPlan
  /\ rawList = <<>>
  /\ tokenList = <<>>
  /\ harvester \in Harvesters
  /\ env \in [override : Overrides, token : BOOLEAN, event : EventPayloads,
              prCommits : PrCommitResults, pushCommit : PushCommitResults,
              gitLog : GitLogResults]
  /\ hpc = "start"
  /\ locals = NoLocals
  /\ lookups = <<>>
  /\ outstanding = {}

\* the request whose answer the `await` of a statement waits for
awaitedAt(at) ==
  CASE at = "pr-wait"   -> {"pr-commits"}
    [] at = "push-wait" -> {"push-commit"}
    [] OTHER            -> {}

\* one step of a harvester: it goes to `next` with the locals `newLocals`,
\* having issued the lookups `issued`, and awaits the lookup `awaited`
HarvestStep(next, newLocals, issued, awaited) ==
  /\ hpc' = next
  /\ locals' = newLocals
  /\ lookups' = lookups \o issued
  /\ outstanding' = (outstanding \ awaitedAt(hpc))
                      \cup (IF awaited = "none" THEN {} ELSE {awaited})
  /\ UNCHANGED <<pc, opts, directives, frame, plan, rawList, tokenList, harvester, env>>

last(list) == list[Len(list)]

\* `${title}\n\n${body}`
prText(ev) == ev.title \o <<"\n", "\n">> \o ev.body

(* harvestMessageLatestOnly of part_003 *)

LatestOverride ==
  /\ harvester = "latestOnly" /\ hpc = "start"
  /\ IF hasDirective(env.override)
     THEN HarvestStep("harvested",
            [locals EXCEPT !.message = trim(env.override), !.source = "override"],
            <<>>, "none")
     ELSE HarvestStep("pr", locals, <<>>, "none")

LatestPrIssue ==
  /\ harvester = "latestOnly" /\ hpc = "pr"
  /\ IF env.token /\ env.event.kind # "absent"
     THEN IF env.event.kind = "malformed"
          THEN HarvestStep(caught("push"), locals, <<"event-payload">>, "none")
          ELSE IF env.event.kind = "pull_request"
          THEN HarvestStep("pr-wait", locals, <<"event-payload", "pr-commits">>,
                           "pr-commits")
          ELSE HarvestStep("push", locals, <<"event-payload">>, "none")
     ELSE HarvestStep("push", locals, <<>>, "none")

LatestPrDone ==
  /\ harvester = "latestOnly" /\ hpc = "pr-wait"
  /\ IF ~env.prCommits.ok
     THEN HarvestStep(caught("push"), locals, <<>>, "none")
     ELSE IF env.prCommits.messages # <<>>
     THEN HarvestStep("harvested",
            [locals EXCEPT !.message = trim(last(env.prCommits.messages)),
                           !.source = "pr-head-commit"],
            <<>>, "none")
     ELSE HarvestStep("push", locals, <<>>, "none")

LatestPushIssue ==
  /\ harvester = "latestOnly" /\ hpc = "push"
  /\ IF env.token
     THEN HarvestStep("push-wait", locals, <<"push-commit">>, "push-commit")
     ELSE HarvestStep("git", locals, <<>>, "none")

LatestPushDone ==
  /\ harvester = "latestOnly" /\ hpc = "push-wait"
  /\ IF ~env.pushCommit.ok
     THEN HarvestStep(caught("git"), locals, <<>>, "none")
     ELSE HarvestStep("harvested",
            [locals EXCEPT !.message = trim(env.pushCommit.message),
                           !.source = "push-head-commit"],
            <<>>, "none")

LatestGitLog ==
  /\ harvester = "latestOnly" /\ hpc = "git"
  /\ IF ~env.gitLog.ok
     THEN HarvestStep(caught("harvested"),
            [locals EXCEPT !.message = <<>>, !.source = "none"], <<"git-log">>, "none")
     ELSE HarvestStep("harvested",
            [locals EXCEPT !.message = trim(env.gitLog.message), !.source = "git-log"],
            <<"git-log">>, "none")

(* harvestLatestWithPRDefaults of part_001 *)

DefaultsOverride ==
  /\ harvester = "withPRDefaults" /\ hpc = "start"
  /\ IF hasDirective(env.override)
     THEN HarvestStep("harvested",
            [locals EXCEPT !.message = trim(env.override),
                           !.headCommitMsg = trim(env.override),
                           !.source = "override"],
            <<>>, "none")
     ELSE HarvestStep("event", locals, <<>>, "none")

DefaultsReadEvent ==
  /\ harvester = "withPRDefaults" /\ hpc = "event"
  /\ IF env.event.kind = "absent"
     THEN HarvestStep("pr", locals, <<>>, "none")
     ELSE IF env.event.kind = "malformed"
     THEN HarvestStep(caught("pr"), locals, <<"event-payload">>, "none")
     ELSE IF env.event.kind = "pull_request"
     THEN LET defaultsLines == extractDirectiveLines(prText(env.event))
          IN HarvestStep("pr",
               IF defaultsLines # <<>>
               THEN [locals EXCEPT !.prNumber = TRUE,
                                   !.prBodyDefaults = join(defaultsLines, <<"\n">>),
                                   !.source = "pr-body-defaults"]
               ELSE [locals EXCEPT !.prNumber = TRUE],
               <<"event-payload">>, "none")
     ELSE HarvestStep("pr", locals, <<"event-payload">>, "none")

DefaultsPrIssue ==
  /\ harvester = "withPRDefaults" /\ hpc = "pr"
  /\ IF env.token /\ locals.prNumber
     THEN HarvestStep("pr-wait", locals, <<"pr-commits">>, "pr-commits")
     ELSE HarvestStep("push", locals, <<>>, "none")

DefaultsPrDone ==
  /\ harvester = "withPRDefaults" /\ hpc = "pr-wait"
  /\ IF ~env.prCommits.ok
     THEN HarvestStep(caught("push"), locals, <<>>, "none")
     ELSE IF env.prCommits.messages # <<>>
     THEN LET msg == trim(last(env.prCommits.messages))
          IN HarvestStep("push",
               [locals EXCEPT !.headCommitMsg = msg,
                              !.source = IF hasDirective(msg) THEN "pr-head-commit"
                                         ELSE locals.source],
               <<>>, "none")
     ELSE HarvestStep("push", locals, <<>>, "none")

DefaultsPushIssue ==
  /\ harvester = "withPRDefaults" /\ hpc = "push"
  /\ IF locals.headCommitMsg = <<>> /\ env.token
     THEN HarvestStep("push-wait", locals, <<"push-commit">>, "push-commit")
     ELSE HarvestStep("git", locals, <<>>, "none")

DefaultsPushDone ==
  /\ harvester = "withPRDefaults" /\ hpc = "push-wait"
  /\ IF ~env.pushCommit.ok
     THEN HarvestStep(caught("git"), locals, <<>>, "none")
     ELSE LET msg == trim(env.pushCommit.message)
          IN HarvestStep("git",
               [locals EXCEPT !.headCommitMsg = msg,
                              !.source = IF hasDirective(msg) THEN "push-head-commit"
                                         ELSE locals.source],
               <<>>, "none")

DefaultsGitLog ==
  /\ harvester = "withPRDefaults" /\ hpc = "git"
  /\ IF locals.headCommitMsg # <<>>
     THEN HarvestStep("merge", locals, <<>>, "none")
     ELSE IF ~env.gitLog.ok
     THEN HarvestStep(caught("merge"), locals, <<"git-log">>, "none")
     ELSE LET msg == trim(env.gitLog.message)
          IN HarvestStep("merge",
               [locals EXCEPT !.headCommitMsg = msg,
                              !.source = IF hasDirective(msg) /\ locals.source = "none"
                                         THEN "git-log" ELSE locals.source],
               <<"git-log">>, "none")

DefaultsMerge ==
  /\ harvester = "withPRDefaults" /\ hpc = "merge"
  /\ HarvestStep("harvested",
       [locals EXCEPT !.message = mergedMessage(locals.prBodyDefaults,
                                                locals.headCommitMsg)],
       <<>>, "none")

(* the harvesting steps of the entrypoint of index.js *)

EntryPrNumber ==
  /\ harvester = "entrypoint" /\ hpc = "start"
  /\ IF env.event.kind = "absent"
     THEN HarvestStep("override", locals, <<>>, "none")
     ELSE IF env.event.kind = "malformed"
     THEN HarvestStep(caught("override"), locals, <<"event-payload">>, "none")
     ELSE HarvestStep("override",
            [locals EXCEPT !.prNumber = (env.event.kind = "pull_request")],
            <<"event-payload">>, "none")

EntryOverride ==
  /\ harvester = "entrypoint" /\ hpc = "override"
  /\ IF env.override # <<>> \/ env.event.kind = "absent"
     THEN HarvestStep("api", [locals EXCEPT !.message = env.override], <<>>, "none")
     ELSE IF env.event.kind = "malformed"
     THEN HarvestStep(caught("api"), locals, <<"event-payload">>, "none")
     ELSE IF env.event.kind = "pull_request"
     THEN HarvestStep("api", [locals EXCEPT !.message = trim(prText(env.event))],
                      <<"event-payload">>, "none")
     ELSE HarvestStep("api", [locals EXCEPT !.message = env.event.headCommit],
                      <<"event-payload">>, "none")

EntryApiIssue ==
  /\ harvester = "entrypoint" /\ hpc = "api"
  /\ IF ~hasDirectiveLoose(locals.message) /\ env.token
     THEN IF locals.prNumber
          THEN HarvestStep("pr-wait", locals, <<"pr-commits">>, "pr-commits")
          ELSE HarvestStep("push-wait", locals, <<"push-commit">>, "push-commit")
     ELSE HarvestStep("git", locals, <<>>, "none")

EntryPrDone ==
  /\ harvester = "entrypoint" /\ hpc = "pr-wait"
  /\ IF ~env.prCommits.ok
     THEN HarvestStep(caught("git"), locals, <<>>, "none")
     ELSE IF env.prCommits.messages # <<>>
             /\ hasDirectiveLoose(last(env.prCommits.messages))
     THEN HarvestStep("git",
            [locals EXCEPT !.message = appendMessage(locals.message,
                                                     last(env.prCommits.messages))],
            <<>>, "none")
     ELSE HarvestStep("git", locals, <<>>, "none")

EntryPushDone ==
  /\ harvester = "entrypoint" /\ hpc = "push-wait"
  /\ IF ~env.pushCommit.ok
     THEN HarvestStep(caught("git"), locals, <<>>, "none")
     ELSE IF hasDirectiveLoose(env.pushCommit.message)
     THEN HarvestStep("git", [locals EXCEPT !.message = env.pushCommit.message],
                      <<>>, "none")
     ELSE HarvestStep("git", locals, <<>>, "none")

EntryGitLog ==
  /\ harvester = "entrypoint" /\ hpc = "git"
  /\ IF hasDirectiveLoose(locals.message)
     THEN HarvestStep("harvested", locals, <<>>, "none")
     ELSE IF ~env.gitLog.ok
     THEN HarvestStep(caught("harvested"), locals, <<"git-log">>, "none")
     ELSE IF hasDirectiveLoose(trim(env.gitLog.message))
     THEN HarvestStep("harvested",
            [locals EXCEPT !.message = appendMessage(locals.message,
                                                     trim(env.gitLog.message))],
            <<"git-log">>, "none")
     ELSE HarvestStep("harvested", locals, <<"git-log">>, "none")

\* the run hands the harvested message to computePlan
CallComputePlan ==
  /\ pc = "harvest" /\ hpc = "harvested"
  /\ opts' = [opts EXCEPT !.message = locals.message]
  /\ pc' = "call"
  /\ hpc' = "plan"
  /\ UNCHANGED <<directives, frame, plan, rawList, tokenList, harvester, env, locals,
                 lookups, outstanding>>

HarvestNext ==
  \/ LatestOverride \/ LatestPrIssue \/ LatestPrDone \/ LatestPushIssue
  \/ LatestPushDone \/ LatestGitLog
  \/ DefaultsOverride \/ DefaultsReadEvent \/ DefaultsPrIssue \/ DefaultsPrDone
  \/ DefaultsPushIssue \/ DefaultsPushDone \/ DefaultsGitLog \/ DefaultsMerge
  \/ EntryPrNumber \/ EntryOverride \/ EntryApiIssue \/ EntryPrDone \/ EntryPushDone
  \/ EntryGitLog
  \/ CallComputePlan \/ ComputePlan

HarvestSpec == HarvestInit /\ [][HarvestNext]_vars

(***************************************************************************)
(* Helpers of the properties                                               *)
(***************************************************************************)
Done == pc = "done"

\* the set of the elements of a list
Elems(list) == {list[i] : i \in 1..Len(list)}

\* a is b with some elements removed, the others in b's order
RECURSIVE IsSubsequence(_, _)
IsSubsequence(a, b) ==
  IF a = <<>> THEN TRUE
  ELSE IF b = <<>> THEN FALSE
  ELSE IF Head(a) = Head(b) THEN IsSubsequence(Tail(a), Tail(b))
  ELSE IsSubsequence(a, Tail(b))

\* the label set holds neither sentinel, compared ignoring case
NoSentinel(labels) ==
  \A i \in 1..Len(labels) : toLowerCase(labels[i]) \notin {LabelFull, LabelComponents}

HasLabel(labels, name) == \E i \in 1..Len(labels) : toLowerCase(labels[i]) = name

\* the message with the lines of the `only` directive taken out
RECURSIVE dropOnlyLines(_)
dropOnlyLines(lines) ==
  IF lines = <<>> THEN <<>>
  ELSE LET m == matchLine(Head(lines))
       IN IF m.ok /\ toLowerCase(m.key) = KeyOnly THEN dropOnlyLines(Tail(lines))
          ELSE <<Head(lines)>> \o dropOnlyLines(Tail(lines))

WithoutOnly(o) ==
  [o EXCEPT !.message = join(dropOnlyLines(splitLines(trim(o.message))), <<"\n">>)]

\* the tokens of inc that step (c) appends to w: not in w, first occurrence only
AppendedTokens(w, inc) ==
  LET fresh(i) == inc[i] \notin Elems(w) /\ \A j \in 1..(i - 1) : inc[j] # inc[i]
      F[i \in 0..Len(inc)] ==
        IF i = 0 THEN <<>> ELSE IF fresh(i) THEN Append(F[i - 1], inc[i]) ELSE F[i - 1]
  IN F[Len(inc)]

\* the list t without the elements of the set ex, order kept
Without(t, ex) ==
  LET F[i \in 0..Len(t)] ==
        IF i = 0 THEN <<>> ELSE IF t[i] \in ex THEN F[i - 1] ELSE Append(F[i - 1], t[i])
  IN F[Len(t)]

\* steps (a) to (d) of the reference sequence; present(k) says when directive k applies
RefWorking(d, defaultTargets, present(_)) ==
  LET a == IF KeyOnly \in DOMAIN d /\ ":" \in Elems(d[KeyOnly])
           THEN normalizeList(d[KeyOnly]) ELSE defaultTargets
      b == IF present(KeyTargets) THEN normalizeList(d[KeyTargets]) ELSE a
      c == IF present(KeyInclude) THEN b \o AppendedTokens(b, normalizeList(d[KeyInclude]))
           ELSE b
  IN IF present(KeyExclude) THEN Without(c, Elems(normalizeList(d[KeyExclude]))) ELSE c

\* step (e)
RefTargets(d, defaultTargets, present(_)) ==
  LET w == RefWorking(d, defaultTargets, present)
  IN IF w = <<>> THEN defaultTargets ELSE w

\* the targets named both by include and by exclude
InBoth(d) ==
  Elems(normalizeList(getKey(d, KeyInclude))) \cap Elems(normalizeList(getKey(d, KeyExclude)))

\* the first non-empty string of a list of candidates
FirstNonEmpty(cands) ==
  cands[CHOOSE i \in 1..Len(cands) : cands[i] # <<>> /\ \A j \in 1..(i - 1) : cands[j] = <<>>]

\* configuration.defaults.mode, the empty string when unset
ConfiguredMode(cfg) ==
  IF cfg.defaults # <<>> /\ cfg.defaults[1].mode # <<>> THEN cfg.defaults[1].mode[1] ELSE <<>>

\* configuration.fullBuild.job, or the built-in full-build job when unset
ConfiguredFullJob(cfg) ==
  IF cfg.fullBuild # <<>> /\ cfg.fullBuild[1].job # <<>> /\ cfg.fullBuild[1].job[1] # <<>>
  THEN cfg.fullBuild[1].job[1] ELSE <<"f", "e", "e", "l", "p", "p", "-", "s", "p", "a", "c", "k">> (* feelpp-spack *)

\* the lines of a text: the stretches between line feeds
TextLines(t) ==
  { SubSeq(t, p[1], p[2]) :
      p \in { q \in (1..(Len(t) + 1)) \X (0..Len(t)) :
                /\ q[1] <= q[2] + 1
                /\ (q[1] = 1 \/ t[q[1] - 1] = "\n")
                /\ (q[2] = Len(t) \/ t[q[2] + 1] = "\n")
                /\ \A k \in q[1]..q[2] : t[k] # "\n" } }

\* ln is: white space, the key k in any letter case, white space, `=`, anything
StartsWithKey(ln, k) ==
  \E a \in 0..Len(ln), b \in 1..Len(ln), e \in 1..Len(ln) :
    /\ a < b /\ b < e
    /\ \A i \in 1..a : ln[i] \in {" ", "\t", "\n", "\r"}
    /\ \A i \in (a + 1)..b : IsKeyChar(ln[i])
    /\ toLowerCase(SubSeq(ln, a + 1, b)) = k
    /\ \A i \in (b + 1)..(e - 1) : ln[i] \in {" ", "\t", "\n", "\r"}
    /\ ln[e] = "="

\* the keys of the key=value fragments of ln that follow, on ln, some other
\* text that is not white space
MidLineKeys(ln) ==
  { toLowerCase(matchAt(ln, p).key) :
      p \in { q \in 2..Len(ln) : /\ matchAt(ln, q).ok
                                 /\ IsKeyChar(ln[q])
                                 /\ ~IsKeyChar(ln[q - 1])
                                 /\ \E r \in 1..(q - 1) : ~IsSpace(ln[r]) } }

\* what follows the first `=` of ln
AfterEq(ln) ==
  LET e == CHOOSE i \in 1..Len(ln) : ln[i] = "=" /\ \A j \in 1..(i - 1) : ln[j] # "="
  IN SubSeq(ln, e + 1, Len(ln))

\* ln is the one line of t that begins with the key k
OnlyLineOfKey(t, ln, k) ==
  /\ ln \in TextLines(t)
  /\ StartsWithKey(ln, k)
  /\ \A l2 \in TextLines(t) : StartsWithKey(l2, k) => l2 = ln

\* s is not empty and holds nothing but spaces and tabs
IsBlankRun(s) == s # <<>> /\ \A i \in 1..Len(s) : s[i] \in {" ", "\t"}

\* the pieces of s between separators, as pairs of first and last position
RawPieces(s) ==
  { q \in (1..Len(s)) \X (1..Len(s)) :
      /\ q[1] <= q[2]
      /\ \A i \in q[1]..q[2] : s[i] \notin {",", " ", "\n"}
      /\ (q[1] = 1 \/ s[q[1] - 1] \in {",", " ", "\n"})
      /\ (q[2] = Len(s) \/ s[q[2] + 1] \in {",", " ", "\n"}) }

\* the token a piece stands for: trimmed and lower-cased
PieceToken(s, q) == toLowerCase(trim(SubSeq(s, q[1], q[2])))

\* where the token t is first seen in s
FirstSeen(s, t) ==
  CHOOSE p \in 1..Len(s) :
    /\ \E q \in RawPieces(s) : q[1] = p /\ PieceToken(s, q) = t
    /\ \A q \in RawPieces(s) : PieceToken(s, q) = t => p <= q[1]

\* a harvesting run has ended and computePlan has returned
HarvestDone == pc = "done" /\ harvester # "none"

\* some line of the text begins with one of the six keys, in any letter case,
\* and `=`
HasDirectiveLine(text) ==
  \E ln \in TextLines(text) : \E i \in 1..Len(RecognizedKeys) :
    StartsWithKey(ln, RecognizedKeys[i])

\* the recognized keys the lexer finds in the text
Recognized(text) == Elems(RecognizedKeys) \cap DOMAIN parseDirectives(text)

\* the sources by priority: 1 the override, 2 the head commit of the pull
\* request, 3 the title and body of the pull request, 4 the head commit of the
\* push, 5 the local log; and whether each has a text to give
SrcAvailable(i) ==
  CASE i = 1 -> env.override # <<>>
    [] i = 2 -> /\ env.event.kind = "pull_request" /\ env.token
                /\ env.prCommits.ok /\ env.prCommits.messages # <<>>
    [] i = 3 -> env.event.kind = "pull_request"
    [] i = 4 -> env.event.kind # "pull_request" /\ env.token /\ env.pushCommit.ok
    [] i = 5 -> env.gitLog.ok

SrcText(i) ==
  CASE i = 1 -> env.override
    [] i = 2 -> env.prCommits.messages[Len(env.prCommits.messages)]
    [] i = 3 -> env.event.title \o <<"\n", "\n">> \o env.event.body
    [] i = 4 -> env.pushCommit.message
    [] i = 5 -> env.gitLog.message

\* the available sources in which the lexer finds a recognized key
Bearing == {i \in 1..5 : SrcAvailable(i) /\ Recognized(SrcText(i)) # {}}

\* the least number of a non-empty set of numbers
Least(S) == CHOOSE i \in S : \A j \in S : i <= j

\* every text a harvester can get: the override, the texts of the event
\* payload, and what each lookup gives when it succeeds
AvailableTexts ==
  {env.override, env.event.title \o <<"\n", "\n">> \o env.event.body,
   env.event.headCommit, env.gitLog.message, env.pushCommit.message}
  \cup Elems(env.prCommits.messages)

\* the plan of the configuration defaults alone
DefaultsPlan == computePlan([opts EXCEPT !.message = <<>>])

(***************************************************************************)
(* Properties                                                              *)
(***************************************************************************)

\* C1: the target list of the plan computePlan returns is never empty, in its
\* list form and in its two string forms.
C1_TargetsNeverEmpty ==
  Done => /\ frame.workingTargets # <<>>
          /\ plan.targetsList # <<>>
          /\ plan.targetsJson # <<"[", "]">>

\* C2 as stated: every enabled job is a member of the job universe
\* (configuration.jobs or the five built-in names) and enabledJobs is an
\* order-preserving subsequence of the initial enabled-job list.
C2_EnabledJobsInUniverse ==
  Done => /\ Elems(plan.enabledJobs) \subseteq
               Elems(IF opts.config.jobs # <<>> THEN opts.config.jobs[1] ELSE BuiltinJobs)
          /\ IsSubsequence(plan.enabledJobs, frame.initialJobs)

\* C2 as amended: enabledJobs is an order-preserving subsequence of the initial
\* enabled-job list (the full-build job alone when the mode is full, otherwise
\* configuration.defaults.jobs or, when unset, the job universe); its jobs are
\* members of the job universe when that initial list is the job universe.
C2_EnabledJobsSubsequence ==
  Done => /\ IsSubsequence(plan.enabledJobs, frame.initialJobs)
          /\ frame.initialJobs =
               (IF plan.mode = <<"f", "u", "l", "l">> (* full *) THEN <<ConfiguredFullJob(opts.config)>>
                ELSE IF opts.config.defaults # <<>> /\ opts.config.defaults[1].jobs # <<>>
                     THEN opts.config.defaults[1].jobs[1]
                ELSE IF opts.config.jobs # <<>> THEN opts.config.jobs[1]
                ELSE BuiltinJobs)
          /\ (plan.mode # <<"f", "u", "l", "l">> (* full *) /\ cfgDefault(opts.config, "jobs") = <<>>
                => Elems(plan.enabledJobs) \subseteq Elems(frame.jobsCfg))

\* the only/skip filter has removed some but not all jobs of a full-mode run and
\* of a components run
C2_Witness ==
  /\ Done
  /\ plan.enabledJobs # <<>>
  /\ Len(plan.enabledJobs) < Len(frame.initialJobs)
  /\ frame.onlyJobs # <<>>

\* C3: when the value of `only` holds a colon, the target list is exactly the
\* tokens of that value (no targets/include/exclude directive being given) and
\* enabledJobs is what the same input without the `only` directive yields.
C3_OnlyWithColonLeavesJobs ==
  (Done /\ includes(getKey(directives, KeyOnly), ":"))
    => /\ (DOMAIN directives) \cap {KeyTargets, KeyInclude, KeyExclude} = {}
            => frame.workingTargets = normalizeList(directives[KeyOnly])
       /\ plan.enabledJobs = computePlan(WithoutOnly(opts)).enabledJobs

\* C4 as stated: the target list is the reference sequence (a)-(e) applied to
\* defaultTargets (a directive being present when it has a value), and no
\* target named by both include and exclude is in the result.
C4_TargetsReferenceAsStated ==
  Done => LET present(k) == k \in DOMAIN directives /\ directives[k] # <<>>
          IN /\ frame.workingTargets = RefTargets(directives, frame.defaultTargets, present)
             /\ InBoth(directives) \cap Elems(frame.workingTargets) = {}

\* C4 as amended: the target list is the reference sequence (a)-(e) applied to
\* defaultTargets (a directive being present when it has a value), and a target
\* named by both include and exclude is not in the result unless step (e) has
\* reset an empty list to defaultTargets.
C4_TargetsReference ==
  Done => LET present(k) == k \in DOMAIN directives /\ directives[k] # <<>>
              w == RefWorking(directives, frame.defaultTargets, present)
          IN /\ frame.workingTargets = RefTargets(directives, frame.defaultTargets, present)
             /\ plan.targetsList = join(frame.workingTargets, <<" ">>)
             /\ w # <<>> => InBoth(directives) \cap Elems(frame.workingTargets) = {}

\* include and exclude have both acted, a target being named by both, and the
\* resulting list is neither empty nor the default one
C4_Witness ==
  /\ Done
  /\ InBoth(directives) # {}
  /\ frame.workingTargets # frame.defaultTargets
  /\ frame.workingTargets # <<>>

\* C5: enabledJobs is exactly the jobs of the initial list, in order, whose
\* lower-cased name is in onlyJobs (when onlyJobs is not empty) and is not in
\* skipJobs; a job named by both only and skip is never enabled.
C5_OnlyThenSkip ==
  Done => LET only == Elems(frame.onlyJobs)
              skip == Elems(frame.skipJobs)
              drop == {j \in Elems(frame.initialJobs) :
                         \/ (only # {} /\ toLowerCase(j) \notin only)
                         \/ toLowerCase(j) \in skip}
          IN /\ plan.enabledJobs = Without(frame.initialJobs, drop)
             /\ \A j \in Elems(plan.enabledJobs) : toLowerCase(j) \notin only \cap skip
             /\ plan.onlyJobs = join(frame.onlyJobs, <<" ">>)
             /\ plan.skipJobs = join(frame.skipJobs, <<" ">>)

\* a job of the initial list is named by only and by skip, and another job is
\* enabled
C5_Witness ==
  /\ Done
  /\ \E j \in Elems(frame.initialJobs) :
       toLowerCase(j) \in Elems(frame.onlyJobs) \cap Elems(frame.skipJobs)
  /\ plan.enabledJobs # <<>>

C7_ModePrecedence ==
  (Done /\ NoSentinel(opts.labels))
    => plan.mode = toLowerCase(FirstNonEmpty(
         << opts.inputs.modeInput, getKey(directives, KeyMode),
            ConfiguredMode(opts.config), <<"c", "o", "m", "p", "o", "n", "e", "n", "t", "s">> (* components *) >>))

\* the override, the directive and the configuration all give a mode, three
\* different ones, and the override is in mixed case
C7_Witness ==
  /\ Done
  /\ NoSentinel(opts.labels)
  /\ opts.inputs.modeInput = <<"W", "e", "e", "k", "l", "y">> (* Weekly *)
  /\ getKey(directives, KeyMode) = <<"f", "u", "l", "l">> (* full *)
  /\ ConfiguredMode(opts.config) = <<"N", "i", "g", "h", "t", "l", "y">> (* Nightly *)
  /\ plan.mode = <<"w", "e", "e", "k", "l", "y">> (* weekly *)

\* C8: a label set holding ci-mode-full (in any letter case) and not
\* ci-mode-components gives mode full whatever the override, the directive and
\* the configured mode are, and enabledJobs starts from the full-build job.
C8_LabelFullForcesFull ==
  (/\ Done
   /\ HasLabel(opts.labels, <<"c", "i", "-", "m", "o", "d", "e", "-", "f", "u", "l", "l">> (* ci-mode-full *))
   /\ ~HasLabel(opts.labels, <<"c", "i", "-", "m", "o", "d", "e", "-", "c", "o", "m", "p", "o", "n", "e", "n", "t", "s">> (* ci-mode-components *)))
    => /\ plan.mode = <<"f", "u", "l", "l">> (* full *)
       /\ frame.initialJobs = <<ConfiguredFullJob(opts.config)>>
       /\ IsSubsequence(plan.enabledJobs, <<ConfiguredFullJob(opts.config)>>)

\* the label is written CI-Mode-Full, the override says Weekly and the message
\* says components
C8_Witness ==
  /\ Done
  /\ opts.labels = << <<"C", "I", "-", "M", "o", "d", "e", "-", "F", "u", "l", "l">> (* CI-Mode-Full *), <<"d", "o", "c", "s">> (* docs *) >>
  /\ opts.inputs.modeInput = <<"W", "e", "e", "k", "l", "y">> (* Weekly *)
  /\ getKey(directives, KeyMode) = <<"C", "o", "m", "p", "o", "n", "e", "n", "t", "s">> (* Components *)
  /\ plan.mode = <<"f", "u", "l", "l">> (* full *)
  /\ plan.enabledJobs = << <<"f", "e", "e", "l", "p", "p", "-", "s", "p", "a", "c", "k">> (* feelpp-spack *) >>

\* C9: empty text, empty configuration, no label and no override yield mode
\* components, the five built-in jobs, the five built-in targets and empty
\* onlyJobs and skipJobs strings.
C9_AllDefaults ==
  (/\ Done
   /\ opts.message = <<>>
   /\ opts.config = EmptyConfig
   /\ opts.labels = <<>>
   /\ opts.inputs.modeInput = <<>>)
    => /\ plan.mode = <<"c", "o", "m", "p", "o", "n", "e", "n", "t", "s">> (* components *)
       /\ plan.enabledJobs =
            << <<"f", "e", "e", "l", "p", "p">> (* feelpp *), <<"t", "e", "s", "t", "s", "u", "i", "t", "e">> (* testsuite *), <<"t", "o", "o", "l", "b", "o", "x", "e", "s">> (* toolboxes *), <<"m", "o", "r">> (* mor *), <<"p", "y", "t", "h", "o", "n">> (* python *) >>
       /\ plan.targetsList =
            <<"u", "b", "u", "n", "t", "u", ":", "2", "4", ".", "0", "4", " ", "u", "b", "u", "n", "t", "u", ":", "2", "2", ".", "0", "4", " ", "d", "e", "b", "i", "a", "n", ":", "1", "3", " ", "d", "e", "b", "i", "a", "n", ":", "1", "2", " ", "f", "e", "d", "o", "r", "a", ":", "4", "2">> (* ubuntu:24.04 ubuntu:22.04 debian:13 debian:12 fedora:42 *)
       \* ["ubuntu:24.04","ubuntu:22.04","debian:13","debian:12","fedora:42"]
       /\ plan.targetsJson =
            <<"[", "\"", "u", "b", "u", "n", "t", "u", ":", "2", "4", ".", "0", "4", "\"", ",", "\"", "u", "b", "u", "n", "t", "u", ":", "2", "2", ".", "0", "4", "\"", ",", "\"", "d", "e", "b", "i", "a", "n", ":", "1", "3", "\"", ",", "\"", "d", "e", "b", "i", "a", "n", ":", "1", "2", "\"", ",", "\"", "f", "e", "d", "o", "r", "a", ":", "4", "2", "\"", "]">>
       /\ plan.onlyJobs = <<>>
       /\ plan.skipJobs = <<>>

\* computePlan has returned from the call with every input empty
C9_Witness ==
  /\ Done
  /\ opts.message = <<>>
  /\ opts.config = EmptyConfig
  /\ opts.labels = <<>>
  /\ opts.inputs.modeInput = <<>>
  /\ Len(plan.enabledJobs) = 5

\* C10: every key of the Directive Map comes from a line that begins, after
\* white space only, with that key followed by optional white space and `=`; a
\* line whose key=value fragment follows other text adds no entry.
C10_KeysOnlyAtLineStart ==
  pc = "lexed" =>
    /\ \A k \in DOMAIN directives :
         \E ln \in TextLines(opts.message) : StartsWithKey(ln, k)
    /\ \A ln \in TextLines(opts.message) : \A k \in MidLineKeys(ln) :
         (\A l2 \in TextLines(opts.message) : ~StartsWithKey(l2, k))
           => k \notin DOMAIN directives

\* the text is one line holding a key=value fragment after a bullet, and the
\* map is empty
C10_Witness ==
  /\ pc = "lexed"
  /\ opts.message = <<"-", " ", "a", "=", "B">> (* - a=B *)
  /\ directives = EmptyMap

\* C11 as stated: a line made of a key, `=`, and nothing or only white space
\* after it is captured, and the map holds the key with the empty string.
C11_EmptyValueCapturedAsStated ==
  pc = "lexed" =>
    \A ln \in TextLines(opts.message) : \A k \in {toLowerCase(keyPrefix(trimStart(ln)))} :
      (OnlyLineOfKey(opts.message, ln, k)
         /\ (AfterEq(ln) = <<>> \/ IsBlankRun(AfterEq(ln))))
        => (k \in DOMAIN directives /\ directives[k] = <<>>)

\* C11 amended: the line is captured with the empty string when at least one
\* space or tab, and nothing else, follows the `=`; a line that ends at the `=`
\* adds no entry.
C11_EmptyValueCaptured ==
  pc = "lexed" =>
    \A ln \in TextLines(opts.message) : \A k \in {toLowerCase(keyPrefix(trimStart(ln)))} :
      OnlyLineOfKey(opts.message, ln, k) =>
        /\ IsBlankRun(AfterEq(ln)) => (k \in DOMAIN directives /\ directives[k] = <<>>)
        /\ AfterEq(ln) = <<>> => k \notin DOMAIN directives

\* the text is a key, `=` and one space, and the map holds the key with the
\* empty string
C11_Witness ==
  /\ pc = "lexed"
  /\ opts.message = <<"a", "=", " ">> (* a=  *)
  /\ directives = (<<"a">> :> <<>>)

\* C12: the List Normalizer is idempotent, and its output holds no empty token
\* and no two tokens equal ignoring case, the tokens being those of the raw
\* text in the order in which each is first seen.
C12_NormalizerIdempotentOrderedUnique ==
  pc = "normalized" =>
    /\ lowerUnique(normalizeList(join(tokenList, <<" ">>))) = tokenList
    /\ lowerUnique(normalizeList(join(tokenList, <<",">>))) = tokenList
    /\ \A i \in 1..Len(tokenList) : tokenList[i] # <<>>
    /\ \A i, j \in 1..Len(tokenList) :
         toLowerCase(tokenList[i]) = toLowerCase(tokenList[j]) => i = j
    /\ Elems(tokenList) = {PieceToken(rawList, q) : q \in RawPieces(rawList)} \ {<<>>}
    /\ \A i, j \in 1..Len(tokenList) :
         i < j => FirstSeen(rawList, tokenList[i]) < FirstSeen(rawList, tokenList[j])

\* a raw text whose third piece repeats the second in another letter case,
\* normalized to two lower-cased tokens
C12_Witness ==
  /\ pc = "normalized"
  /\ rawList = <<"b", ",", "A", " ", "a">> (* b,A a *)
  /\ tokenList = << <<"b">>, <<"a">> >>

\* C13: the token lists of the plan (onlyJobs, skipJobs, and the target list
\* when an only, targets or include directive builds it) hold no empty string
\* and no two entries equal ignoring case.
C13_PlanTokenListsUnique ==
  Done =>
    \A list \in {frame.onlyJobs, frame.skipJobs} \cup
                 (IF \E k \in {KeyOnly, KeyTargets, KeyInclude} : k \in DOMAIN directives
                  THEN {frame.workingTargets} ELSE {}) :
      /\ \A i \in 1..Len(list) : list[i] # <<>>
      /\ \A i, j \in 1..Len(list) :
           toLowerCase(list[i]) = toLowerCase(list[j]) => i = j

\* C14: when the override holds a directive, the effective text is the
\* override verbatim and nothing else is consulted in the run: no read of the
\* event payload, no API request, no read of the local log.
C14_OverrideAloneConsulted ==
  (HarvestDone /\ HasDirectiveLine(env.override)) =>
    (locals.message = env.override /\ lookups = <<>>)

\* C15: the fallback chain stops before the local log only at a source one of
\* whose lines begins with a recognized key and `=`; a fragment in the middle
\* of a line stops nothing.
C15_ChainStopsOnlyAtLineStartKey ==
  (HarvestDone /\ \A t \in AvailableTexts \ {env.gitLog.message} : ~HasDirectiveLine(t))
    => \E i \in 1..Len(lookups) : lookups[i] = "git-log"

\* C16: when two or more available sources carry recognized directives, every
\* directive of the one of highest priority (override, head commit of the pull
\* request, its title and body, head commit of the push, local log) is in the
\* Directive Map of the plan with its value.
C16_HighestPriorityGoverns ==
  (HarvestDone /\ Cardinality(Bearing) >= 2 /\ ~HasDirectiveLine(env.event.headCommit))
    => \A k \in Recognized(SrcText(Least(Bearing))) :
         /\ k \in DOMAIN directives
         /\ directives[k] = parseDirectives(SrcText(Least(Bearing)))[k]

C18_TopSourceDirectiveKept ==
  (HarvestDone /\ harvester \in {"latestOnly", "withPRDefaults"}
     /\ \E i \in 1..5 : SrcAvailable(i))
    => \A k \in Recognized(SrcText(Least({i \in 1..5 : SrcAvailable(i)}))) :
         /\ k \in DOMAIN directives
         /\ directives[k] =
              parseDirectives(SrcText(Least({i \in 1..5 : SrcAvailable(i)})))[k]

\* after a failed lookup the next one of the harvester is issued
NextTried ==
  LET issued(x) == \E i \in 1..Len(lookups) : lookups[i] = x
  IN /\ (issued("push-commit") /\ ~env.pushCommit.ok) => issued("git-log")
     /\ (issued("pr-commits") /\ ~env.prCommits.ok) =>
          IF harvester = "entrypoint" THEN issued("git-log") ELSE issued("push-commit")
     /\ (issued("event-payload") /\ env.event.kind = "malformed"
           /\ env.override = <<>>) =>
          IF env.token THEN issued("push-commit") ELSE issued("git-log")

\* the statements of each harvester from which it has a step to take
Statements ==
  [h \in Harvesters |->
     CASE h = "latestOnly" -> {"start", "pr", "pr-wait", "push", "push-wait", "git"}
       [] h = "withPRDefaults" ->
            {"start", "event", "pr", "pr-wait", "push", "push-wait", "git", "merge"}
       [] h = "entrypoint" ->
            {"start", "override", "api", "pr-wait", "push-wait", "git"}]

\* C19: whatever sources are unavailable or fail, the run never ends in an
\* error: until its harvester has returned it is at a statement from which the
\* harvester goes on, then computePlan is called and returns; when it has
\* returned, the lookup after each failed one was issued and the plan is that
\* of the harvested message.
C19_FinishesWithPlan ==
  harvester # "none" =>
    /\ hpc # "failed"
    /\ pc = "harvest" => hpc \in Statements[harvester] \cup {"harvested"}
    /\ pc # "harvest" => (hpc = "plan" /\ pc \in {"call", "done"}
                          /\ opts.message = locals.message)
    /\ pc = "done" => (NextTried /\ plan = computePlan(opts))

\* every source failed (the token is there, the event payload is not JSON, both
\* requests and the local log gave an error) and the plan is that of the defaults
C19_Witness ==
  /\ HarvestDone
  /\ env.override = <<>> /\ env.token /\ env.event.kind = "malformed"
  /\ ~env.prCommits.ok /\ ~env.pushCommit.ok /\ ~env.gitLog.ok
  /\ lookups[Len(lookups)] = "git-log"
  /\ locals.message = <<>>
  /\ plan = DefaultsPlan

\* C20: computePlan has no error outcome: on a configuration whose optional
\* fields are missing or of the wrong type it returns a plan, never raises.
C20_NoErrorOutcome == pc # "threw"

\* the lookup x has been issued
Issued(x) == \E i \in 1..Len(lookups) : lookups[i] = x

\* the priority of the source a lookup asks: 2 the head commit of the pull
\* request, 4 the head commit of the push, 5 the local log
LookupRank(x) ==
  CASE x = "pr-commits" -> 2 [] x = "push-commit" -> 4 [] x = "git-log" -> 5 [] OTHER -> 0

isSourceLookup(x) == x # "event-payload"

\* the lookups of the sources issued so far, the reads of the event payload
\* left out
SourceLookups == SelectSeq(lookups, isSourceLookup)

\* source i was consulted by the harvester and the lexer finds a recognized
\* key in what it gave
Yielded(i) ==
  CASE i = 1 -> Recognized(env.override) # {}
    [] i = 2 -> /\ Issued("pr-commits") /\ env.prCommits.ok
                /\ env.prCommits.messages # <<>>
                /\ Recognized(last(env.prCommits.messages)) # {}
    [] i = 3 -> /\ env.event.kind = "pull_request"
                /\ Recognized(prText(env.event)) # {}
                /\ \/ harvester = "withPRDefaults" /\ ~hasDirective(env.override)
                   \/ harvester = "entrypoint" /\ env.override = <<>>
    [] i = 4 -> /\ Issued("push-commit") /\ env.pushCommit.ok
                /\ Recognized(env.pushCommit.message) # {}

\* C22: the lookups of the sources are issued one at a time in priority order
\* (head commit of the pull request, head commit of the push, local log): at
\* most one request is in flight, and when a run has ended no lookup was
\* issued for a source of lower priority than one that yielded a directive.
C22_SequentialLookups ==
  harvester # "none" =>
    /\ Cardinality(outstanding) <= 1
    /\ \A i, j \in 1..Len(SourceLookups) :
         i < j => LookupRank(SourceLookups[i]) < LookupRank(SourceLookups[j])
    /\ HarvestDone =>
         \A i \in 1..4 : Yielded(i) =>
           \A j \in 1..Len(SourceLookups) : LookupRank(SourceLookups[j]) <= i

\* C23: the request for the head commit of the push (the commit of GITHUB_SHA)
\* is sent only when the event of the run is not a pull request; in the run of
\* a pull request it is never sent, whatever the request for the commits of
\* the pull request gave.
C23_PushLookupOnlyOutsidePR ==
  (harvester # "none" /\ env.event.kind = "pull_request") => ~Issued("push-commit")

\* the value of a key in the title and body of the pull request of the run,
\* empty when the run is not that of a pull request or the key is not there
PrValue(k) ==
  IF env.event.kind = "pull_request"
  THEN getKey(parseDirectives(prText(env.event)), k) ELSE <<>>

\* C24: in harvestLatestWithPRDefaults without an override, the effective
\* value of each recognized key is the value of the head commit message when
\* that defines the key, otherwise the value of the title and body of the pull
\* request, otherwise the key is absent: a key of the pull request alone is kept.
C24_HeadCommitWinsKeyForKey ==
  (HarvestDone /\ harvester = "withPRDefaults" /\ ~hasDirective(env.override)) =>
    \A i \in 1..Len(RecognizedKeys) :
      LET k    == RecognizedKeys[i]
          head == getKey(parseDirectives(locals.headCommitMsg), k)
      IN /\ getKey(parseDirectives(locals.message), k) =
              (IF head # <<>> THEN head ELSE PrValue(k))
         /\ getKey(directives, k) = getKey(parseDirectives(locals.message), k)

\* C30: in harvestLatestWithPRDefaults the provenance tag is `none` exactly
\* when the effective message carries no recognized directive, it is
\* `pr-body-defaults` only when the commit message merged over the defaults of
\* the pull request carries none, and a tag naming a commit message is given
\* only when that message carries one.
C30_ProvenanceNamesTopSource ==
  (HarvestDone /\ harvester = "withPRDefaults") =>
    /\ locals.source = "none" <=> Recognized(locals.message) = {}
    /\ locals.source = "pr-body-defaults" => Recognized(locals.headCommitMsg) = {}
    /\ locals.source \in {"pr-head-commit", "push-head-commit", "git-log"}
         => Recognized(locals.headCommitMsg) # {}

\* C26: normalizeList splits on runs of commas and white space of any kind
\* (space, tab, carriage return, line feed): no token it returns holds a comma
\* or a white space character, and the normalizeList of index.js, of part_000
\* and of part_001 return the same list for the same raw text.
C26_VariantsSplitOnAllWhitespace ==
  pc = "normalized" =>
    /\ \A i \in 1..Len(normalizeList(rawList)) :
         \A j \in 1..Len(normalizeList(rawList)[i]) :
           ~IsListSep001(normalizeList(rawList)[i][j])
    /\ normalizeList000(rawList) = normalizeList(rawList)
    /\ normalizeList001(rawList) = normalizeList(rawList)

\* C27: when the message carries an exclude directive, no target the directive
\* names, compared ignoring case, is in the final target list of the plan, also
\* when the exclusion removes every working target.
C27_ExcludedTargetsAbsent ==
  (Done /\ getKey(directives, KeyExclude) # <<>>) =>
    \A i \in 1..Len(frame.workingTargets) :
      \A j \in 1..Len(normalizeList(getKey(directives, KeyExclude))) :
        toLowerCase(frame.workingTargets[i]) #
          toLowerCase(normalizeList(getKey(directives, KeyExclude))[j])

\* computePlan has returned, once or twice
Returned == pc \in {"done", "again"}

\* the lines with those that carry a key that is not recognized taken out
RECURSIVE dropUnrecognizedLines(_)
dropUnrecognizedLines(lines) ==
  IF lines = <<>> THEN <<>>
  ELSE LET m == matchLine(Head(lines))
       IN IF m.ok /\ ~includes(RecognizedKeys, toLowerCase(m.key))
          THEN dropUnrecognizedLines(Tail(lines))
          ELSE <<Head(lines)>> \o dropUnrecognizedLines(Tail(lines))

WithoutUnrecognized(o) ==
  [o EXCEPT !.message = join(dropUnrecognizedLines(splitLines(o.message)), <<"\n">>)]

\* the keys that are not recognized on the lines of the message computePlan parses
UnrecognizedKeys(o) ==
  {toLowerCase(matchLine(ln).key) :
     ln \in {l \in Elems(splitLines(trim(o.message))) : matchLine(l).ok}}
  \ Elems(RecognizedKeys)

\* C21: the key=value lines whose key is not recognized are kept in the
\* Directive Map and change nothing in the plan: the plan of a message is the
\* plan of the same message without these lines (same mode, enabledJobs,
\* onlyJobs, skipJobs and target list), so two messages that differ in such
\* lines only have the same plan.
C21_UnrecognizedKeysInert ==
  Returned =>
    /\ UnrecognizedKeys(opts) \subseteq DOMAIN directives
    /\ LET f == computeFrame(WithoutUnrecognized(opts))
       IN /\ plan = planOf(f)
          /\ frame.mode = f.mode
          /\ frame.enabledJobs = f.enabledJobs
          /\ frame.onlyJobs = f.onlyJobs
          /\ frame.skipJobs = f.skipJobs
          /\ frame.workingTargets = f.workingTargets

\* a message with a skip directive and a line jobs=mor: the map keeps jobs, the
\* plan is that of skip=feelpp alone
C21_Witness ==
  /\ pc = "done"
  /\ opts.message = <<"s", "k", "i", "p", "=", "f", "e", "e", "l", "p", "p">> (* skip=feelpp *) \o <<"\n">> \o <<"j", "o", "b", "s", "=", "m", "o", "r">> (* jobs=mor *)
  /\ opts.config = EmptyConfig /\ opts.labels = <<>> /\ opts.inputs.modeInput = <<>>
  /\ directives = [k \in {KeySkip, <<"j", "o", "b", "s">> (* jobs *)} |->
                     IF k = KeySkip THEN <<"f", "e", "e", "l", "p", "p">> (* feelpp *) ELSE <<"m", "o", "r">> (* mor *)]
  /\ frame.onlyJobs = <<>>
  /\ plan.enabledJobs = << <<"t", "e", "s", "t", "s", "u", "i", "t", "e">> (* testsuite *), <<"t", "o", "o", "l", "b", "o", "x", "e", "s">> (* toolboxes *), <<"m", "o", "r">> (* mor *), <<"p", "y", "t", "h", "o", "n">> (* python *) >>

\* the mode value the chain of computePlan picks, as it was written
ChosenMode ==
  FirstNonEmpty(<< opts.inputs.modeInput, getKey(directives, KeyMode),
                   ConfiguredMode(opts.config), <<"c", "o", "m", "p", "o", "n", "e", "n", "t", "s">> (* components *) >>)

\* the chosen mode is a custom one: neither components nor full in any letter case
CustomMode == toLowerCase(ChosenMode) \notin {BuiltinMode, ModeFull}

\* C25 as stated: without a sentinel label, a custom mode value of the
\* override, the directive or the configuration is the mode of the plan as it
\* was written, and the enabled-job list starts from defaultJobs.
C25_CustomModeVerbatimAsStated ==
  (Returned /\ NoSentinel(opts.labels) /\ CustomMode) =>
    (plan.mode = ChosenMode /\ frame.initialJobs = frame.defaultJobs)

\* C25 amended: without a sentinel label, a custom mode value of the override,
\* the directive or the configuration is the mode of the plan in lower case,
\* and the enabled-job list starts from defaultJobs as for components.
C25_CustomModeLowerCased ==
  (Returned /\ NoSentinel(opts.labels) /\ CustomMode) =>
    /\ plan.mode = toLowerCase(ChosenMode)
    /\ frame.initialJobs = frame.defaultJobs
    /\ frame.initialJobs = defaultJobsOf(opts.config)

\* the directive mode=Nightly, over the configured mode full, with no override
\* and no label: the mode is nightly and the five default jobs are enabled
C25_Witness ==
  /\ pc = "done"
  /\ opts.labels = <<>> /\ opts.inputs.modeInput = <<>>
  /\ opts.message = <<"m", "o", "d", "e", "=", "N", "i", "g", "h", "t", "l", "y">> (* mode=Nightly *)
  /\ ConfiguredMode(opts.config) = <<"f", "u", "l", "l">> (* full *)
  /\ plan.mode = <<"n", "i", "g", "h", "t", "l", "y">> (* nightly *)
  /\ plan.enabledJobs = BuiltinJobs

C29_BothLabelsGiveComponents ==
  (Returned /\ HasLabel(opts.labels, LabelFull) /\ HasLabel(opts.labels, LabelComponents))
    => /\ plan.mode = BuiltinMode
       /\ frame.initialJobs = defaultJobsOf(opts.config)
       /\ plan.enabledJobs = filterJobs(defaultJobsOf(opts.config), frame.onlyJobs,
                                        frame.skipJobs)

\* ci-mode-full written first and in mixed case, ci-mode-components last, with
\* the override full: the mode is components and the five default jobs are enabled
C29_Witness ==
  /\ pc = "done"
  /\ opts.labels = << <<"C", "i", "-", "M", "o", "d", "e", "-", "F", "u", "l", "l">> (* Ci-Mode-Full *), <<"d", "o", "c", "s">> (* docs *), <<"C", "I", "-", "M", "O", "D", "E", "-", "C", "o", "m", "p", "o", "n", "e", "n", "t", "s">> (* CI-MODE-Components *) >>
  /\ opts.inputs.modeInput = <<"f", "u", "l", "l">> (* full *)
  /\ opts.config = EmptyConfig
  /\ opts.message = <<>>
  /\ plan.mode = <<"c", "o", "m", "p", "o", "n", "e", "n", "t", "s">> (* components *)
  /\ plan.enabledJobs = BuiltinJobs

====
